---- MODULE Spec2Model ----
(***************************************************************************)
(* Model of the package-to-CDN-asset resolver of algolia/docli             *)
(* (pkg/cmd/generate/cdn/cdn.go).                                          *)
(*                                                                         *)
(* Strings are sequences of atoms.  In a file path the atoms "/", "." and  *)
(* " " are the single characters the path code inspects; every other atom  *)
(* is a non-empty run of ordinary characters (no separator, no blank at    *)
(* either end, not made of dots only).  Go's string concatenation is \o.   *)
(***************************************************************************)
EXTENDS Naturals, Sequences, FiniteSets, TLC

VARIABLES
    registry,    \* upstream: package name -> metadata document served by npm
    cdn,         \* upstream: listing key -> files served by the jsDelivr data API
    metaCache,   \* Resolver.metaCache
    cdnCache,    \* Resolver.cdnCache
    mu,          \* Resolver.mu: the caller holding the mutex, or NoCaller
    pc,          \* per caller: position inside ResolveWithContext
    pkg,         \* per caller: the PackageSpec argument
    ctx,         \* per caller: the context passed in (Background, Canceled, NilContext)
    resolved,    \* per caller: the local variable `resolved`
    metaData,    \* per caller: the local *packageMetadata ({} is nil)
    hashes,      \* per caller: the local hashes map ({} is nil)
    req,         \* per caller: the HTTP request in flight ({} when none)
    ret,         \* per caller: what the call returned, [pkg, err]
    res,         \* per caller: what the call's last client.Do returned ({} when none)
    npmCalls,    \* metadata requests handed to the HTTP transport
    cdnCalls,    \* listing requests handed to the HTTP transport
    npmServed,   \* metadata requests that reached the registry server
    cdnServed,   \* listing requests that reached the data API server
    calls,       \* number of Resolve calls started
    snap,        \* per caller: counters and caches when the call started
    okPkgs,      \* package names for which a Resolve has succeeded
    cdnFor,      \* per listing cache key: the (packageName, version) given to
                 \* the storeCDNFiles call that wrote the entry
    sanIn,       \* input handed to sanitizeFilePath on its own
    sanOut,      \* result of sanitizeFilePath(sanIn), or the pending marker
    dryRun,      \* Printer.dryRun
    quiet,       \* Printer.quiet
    data,        \* the PackageSpecs read from the data file, in file order
    idx,         \* runCommand: index in data of the package being handled
    cpc,         \* runCommand: position ("none" when no command runs)
    fs,          \* the files of the output directory: path -> content
    stdout,      \* what the Printer has printed
    wrote,       \* what the last Printer.WriteFile call did ({} when none)
    cmdRet       \* what runCommand returned

vars == <<registry, cdn, metaCache, cdnCache, mu, pc, pkg, ctx, resolved,
          metaData, hashes, req, ret, res, npmCalls, cdnCalls, npmServed,
          cdnServed, calls, snap, okPkgs, cdnFor, sanIn, sanOut, dryRun, quiet, data,
          idx, cpc, fs, stdout, wrote, cmdRet>>

resolverVars == <<registry, cdn, metaCache, cdnCache, mu, pc, pkg, ctx,
                  resolved, metaData, hashes, req, ret, res, npmCalls, cdnCalls,
                  npmServed, cdnServed, calls, snap, okPkgs, cdnFor>>

sanVars == <<sanIn, sanOut>>

cmdVars == <<dryRun, quiet, data, idx, cpc, fs, stdout, wrote, cmdRet>>

----------------------------------------------------------------------------
(* Bounds *)

\* Longest input (in atoms) handed to the path sanitizer on its own.
MaxPathLen == 6

\* Number of Resolve calls made one after another on one Resolver.
MaxCalls == 2

----------------------------------------------------------------------------
(* Strings *)

EmptyStr == << >>

IsSpace(a) == a = " "

RECURSIVE TrimLeft(_)
TrimLeft(s) ==
    IF s # << >> /\ IsSpace(Head(s)) THEN TrimLeft(Tail(s)) ELSE s

RECURSIVE TrimRightSpace(_)
TrimRightSpace(s) ==
    IF s # << >> /\ IsSpace(s[Len(s)])
    THEN TrimRightSpace(SubSeq(s, 1, Len(s) - 1))
    ELSE s

\* Trimming the leading blanks only.
TrimSpaceLeft(s) == TrimLeft(s)

\* strings.TrimSpace
TrimSpace(s) == TrimRightSpace(TrimLeft(s))

\* strings.TrimRight(s, "/")
RECURSIVE TrimRightSlash(_)
TrimRightSlash(s) ==
    IF s # << >> /\ s[Len(s)] = "/"
    THEN TrimRightSlash(SubSeq(s, 1, Len(s) - 1))
    ELSE s

\* strings.Contains
Contains(s, sub) ==
    \E i \in 1..(Len(s) + 1) :
        /\ i + Len(sub) - 1 <= Len(s)
        /\ SubSeq(s, i, i + Len(sub) - 1) = sub

----------------------------------------------------------------------------
(* Errors.  kind names the return site in the taxonomy of the design; text *)
(* is err.Error(); is holds the sentinel errors errors.Is finds in the     *)
(* chain.                                                                  *)

NoErr == [kind |-> "nil", text |-> << >>, is |-> {}]

Errorf(kind, text) == [kind |-> kind, text |-> text, is |-> {}]

\* The verb %q of fmt: the string between double quotes (the strings here hold
\* no character %q would escape).
Quoted(s) == <<"\"">> \o s \o <<"\"">>

----------------------------------------------------------------------------
(* path.Clean (filepath.Clean where the separator is "/"), as the loop of   *)
(* the Go standard library: r is the read index, out the buffer written so *)
(* far and dotdot the length of out that ".." may not back up over.  For a *)
(* rooted path out starts as "/" with dotdot = 1, so ".." never backs up   *)
(* over the root; for a relative path both start at 0 and a ".." with      *)
(* nothing to back up over is kept.                                        *)

RECURSIVE BackUp(_, _, _)
BackUp(buf, w, dotdot) ==
    \* out.w--; for out.w > dotdot && out.index(out.w) != '/' { out.w-- }
    \* (w is out.w after the first decrement; out.index(w) is buf[w + 1])
    IF w > dotdot /\ buf[w + 1] # "/"
    THEN BackUp(buf, w - 1, dotdot)
    ELSE SubSeq(buf, 1, w)

RECURSIVE CopySegment(_, _, _)
CopySegment(p, r, out) ==
    \* for ; r < n && path[r] != '/'; r++ { out.append(path[r]) }
    IF r <= Len(p) /\ p[r] # "/"
    THEN CopySegment(p, r + 1, Append(out, p[r]))
    ELSE <<r, out>>

RECURSIVE CleanLoop(_, _, _, _)
CleanLoop(p, r, out, dotdot) ==
    LET n == Len(p)
        rooted == Head(p) = "/"
    IN
    IF r > n THEN out
    ELSE IF p[r] = "/" THEN CleanLoop(p, r + 1, out, dotdot)
    ELSE IF p[r] = "." /\ (r = n \/ p[r + 1] = "/")
         THEN CleanLoop(p, r + 1, out, dotdot)
    ELSE IF p[r] = "." /\ p[r + 1] = "." /\ (r + 1 = n \/ p[r + 2] = "/")
         THEN IF Len(out) > dotdot
              THEN CleanLoop(p, r + 2, BackUp(out, Len(out) - 1, dotdot), dotdot)
              ELSE IF ~rooted
              THEN LET kept == (IF Len(out) > 0 THEN Append(out, "/") ELSE out)
                                  \o <<".", ".">>
                   IN  CleanLoop(p, r + 2, kept, Len(kept))
              ELSE CleanLoop(p, r + 2, out, dotdot)
    ELSE LET sep  == IF (rooted /\ Len(out) # 1) \/ (~rooted /\ Len(out) # 0)
                     THEN Append(out, "/") ELSE out
             copy == CopySegment(p, r, sep)
         IN  CleanLoop(p, copy[1], copy[2], dotdot)

\* path.Clean(p)
Clean(p) ==
    IF p = EmptyStr THEN <<".">>
    ELSE LET out == IF Head(p) = "/"
                    THEN CleanLoop(p, 2, <<"/">>, 1)
                    ELSE CleanLoop(p, 1, EmptyStr, 0)
         IN  IF out = EmptyStr THEN <<".">> ELSE out

\* The test sanitizeFilePath makes of the cleaned path (line 250).
SanitizeRootCheckEmpty(cleaned) == cleaned = EmptyStr

SanitizeRootCheck(cleaned) == cleaned = <<"/">>

\* sanitizeFilePath: [ok, path, err]

SanitizeFilePath(file) ==
    LET trimmed == TrimSpace(file) IN
    IF trimmed = EmptyStr
    THEN [ok |-> FALSE, path |-> EmptyStr,
          err |-> Errorf("EmptyPath", <<"file path is empty">>)]
    ELSE LET cleaned == Clean(<<"/">> \o trimmed) IN
         IF SanitizeRootCheck(cleaned)
         THEN [ok |-> FALSE, path |-> EmptyStr,
               err |-> Errorf("PathResolvesToRoot",
                              <<"file path ">> \o Quoted(file) \o <<" resolves to root">>)]
         ELSE [ok |-> TRUE, path |-> cleaned, err |-> NoErr]

----------------------------------------------------------------------------
(* Go maps are functions; a key outside the domain is absent.              *)

EmptyMap == [k \in {} |-> {}]

HasKey(m, k) == k \in DOMAIN m

MapPut(m, k, v) == [x \in (DOMAIN m) \cup {k} |-> IF x = k THEN v ELSE m[x]]

----------------------------------------------------------------------------
(* Data of the resolver *)

Callers == {"c1", "c2"}

\* The caller that makes the Resolve calls one after another.
SeqCaller == "c1"

NoCaller == "none"

\* const block of cdn.go
NpmRegistryURL == <<"https://registry.npmjs.org">>

JsDelivrDataURL == <<"https://data.jsdelivr.com/v1/package/npm">>

JsDelivrCdnURL == <<"https://cdn.jsdelivr.net/npm">>

\* PackageSpec
PackageSpec(name, file, packageName) ==
    [name |-> name, file |-> file, packageName |-> packageName]

\* ResolvedPackage (the embedded PackageSpec flattened)
ResolvedPackage(spec) ==
    [name |-> spec.name, file |-> spec.file, packageName |-> spec.packageName,
     integrity |-> EmptyStr, src |-> EmptyStr, version |-> EmptyStr]

\* ResolvedPackage{}
ZeroPackage == ResolvedPackage(PackageSpec(EmptyStr, EmptyStr, EmptyStr))

\* packageVersion (Browser is never read by the resolver)
PackageVersion(j, u, m, n) ==
    [jsdelivr |-> j, unpkg |-> u, module |-> m, main |-> n]

\* packageMetadata; distTagsNil is DistTags == nil
PackageMetadata(tagsNil, tags, versions) ==
    [distTagsNil |-> tagsNil, distTags |-> tags, versions |-> versions]

----------------------------------------------------------------------------
(* The upstream registries the model is checked against *)

Foo == <<"foo">>
Bar == <<"bar">>
PkgNames == {Foo, Bar}

V1 == <<"1.2.3">>
V2 == <<"2.0.0">>

Latest == <<"latest">>

FJ == <<"index.js">>
FU == <<"umd.js">>
FM == <<"esm.js">>
FN == <<"main.js">>

\* Field values that are not already clean relative paths.
OddFields == { <<".", "/", "index.js">>, <<"/", "index.js">>,
               <<".", ".">>, <<" ">> }

OldVersion == PackageVersion(<<"old.js">>, <<"old.js">>, <<"old.js">>, <<"old.js">>)

OneTag(tag, v) == [k \in {tag} |-> v]

VersionsOf(v, pv) == [k \in {v, V2} |-> IF k = v THEN pv ELSE OldVersion]

FieldDoc(j, u, m, n) ==
    PackageMetadata(FALSE, OneTag(Latest, V1), VersionsOf(V1, PackageVersion(j, u, m, n)))

FooDocs ==
    { PackageMetadata(TRUE, EmptyMap, VersionsOf(V1, PackageVersion(FJ, FU, FM, FN))),
      PackageMetadata(FALSE, OneTag(<<"next">>, V1),
                      VersionsOf(V1, PackageVersion(FJ, FU, FM, FN))),
      PackageMetadata(FALSE, OneTag(Latest, EmptyStr),
                      VersionsOf(V1, PackageVersion(FJ, FU, FM, FN))),
      PackageMetadata(FALSE, OneTag(Latest, V1), [k \in {V2} |-> OldVersion]) }
    \cup { FieldDoc(j, u, m, n) :
             j \in {EmptyStr, FJ}, u \in {EmptyStr, FU},
             m \in {EmptyStr, FM}, n \in {EmptyStr, FN} }
    \cup { FieldDoc(w, FU, FM, FN) : w \in OddFields }
    \cup { FieldDoc(EmptyStr, EmptyStr, w, FN) : w \in OddFields }
    \cup { FieldDoc(<<"missing.js">>, FU, FM, FN) }

BarDocs ==
    { PackageMetadata(FALSE, OneTag(Latest, V2),
                      [k \in {V2} |-> PackageVersion(EmptyStr, EmptyStr, EmptyStr, FN)]) }

\* The file entries of a flat listing: a sequence of name/hash pairs.
CDNFile(name, hash) == [name |-> name, hash |-> hash]

FullListing ==
    << CDNFile(<<"/", "index.js">>, <<"HASH_INDEX">>),
       CDNFile(<<"/", "umd.js">>, <<"HASH_UMD">>),
       CDNFile(<<"/", "esm.js">>, <<"HASH_ESM">>),
       CDNFile(<<"/", "main.js">>, <<"HASH_MAIN">>),
       CDNFile(<<"/", "other.js">>, <<"HASH_OTHER">>) >>

OtherListing == << CDNFile(<<"/", "other.js">>, <<"HASH_OTHER">>) >>

BarListing == << CDNFile(<<"/", "main.js">>, <<"HASH_BAR_MAIN">>),
                 CDNFile(<<"/", "other.js">>, <<"HASH_BAR_OTHER">>) >>

\* The key of one package version, as it appears in URLs and in the cache.
VersionKey(packageName, version) == packageName \o <<"@">> \o version

\* The listings served when foo@1.2.3 has listing l; without one it is a 404.
CdnOf(l) ==
    [k \in {VersionKey(Foo, V1), VersionKey(Bar, V2)} |->
        IF k = VersionKey(Foo, V1) THEN l ELSE BarListing]

CdnWithoutFoo == [k \in {VersionKey(Bar, V2)} |-> BarListing]

RegistryOf(d) ==
    [p \in PkgNames |-> IF p = Foo THEN d ELSE CHOOSE b \in BarDocs : TRUE]

\* The upstream states checked: every document of foo with the full listing,
\* and two documents with a listing that lacks their default file or with no
\* listing at all.
Worlds ==
    { [registry |-> RegistryOf(d), cdn |-> CdnOf(FullListing)] : d \in FooDocs }
    \cup { [registry |-> RegistryOf(d), cdn |-> w] :
             d \in { FieldDoc(FJ, FU, FM, FN), FieldDoc(EmptyStr, EmptyStr, FM, FN) },
             w \in { CdnOf(OtherListing), CdnWithoutFoo } }

\* The specs a caller may pass.
SpecNames == { <<"snippet1">>, Bar }

SpecPackageNames == { EmptyStr, Foo }

SpecFiles == { EmptyStr, <<"other.js">>, <<"/", "other.js">>, <<"missing.js">>,
               <<" ">>, <<".", ".">> }

\* The spec of the end-to-end scenario: {packageName: "foo", name: "snippet1"}
ScenarioSpec == PackageSpec(<<"snippet1">>, EmptyStr, Foo)

PackageSpecs ==
    { PackageSpec(<<"snippet1">>, f, Foo) : f \in SpecFiles }
    \cup { PackageSpec(n, f, p) :
             n \in SpecNames, f \in {EmptyStr, <<"other.js">>}, p \in SpecPackageNames }

\* The specs a caller may pass together with an already canceled context.
CanceledSpecs == { ScenarioSpec, PackageSpec(Bar, <<"other.js">>, Foo) }


----------------------------------------------------------------------------
(* The pure steps of the resolver *)

\* http.StatusOK
StatusOK == 200

Status(code, text) == [code |-> code, text |-> text]

\* url of fetchNPMMetadata
MetaURL(pkgName) == TrimRightSlash(NpmRegistryURL) \o <<"/">> \o pkgName

\* url of cdnFiles
FlatURL(packageName, version) ==
    TrimRightSlash(JsDelivrDataURL) \o <<"/">> \o packageName \o <<"@">>
        \o version \o <<"/", "flat">>

\* cdnSrc leaving the version out of the URL.
CdnSrcUnversioned(packageName, version, file) ==
    TrimRightSlash(JsDelivrCdnURL) \o <<"/">> \o packageName \o file

\* Resolver.cdnSrc
CdnSrc(packageName, version, file) ==
    TrimRightSlash(JsDelivrCdnURL) \o <<"/">> \o packageName \o <<"@">>
        \o version \o file

\* latestVersion accepting an empty "latest" tag.
LatestVersionAllowEmpty(meta, name) ==
    IF meta.distTagsNil
    THEN [ok |-> FALSE, version |-> EmptyStr,
          err |-> Errorf("NoLatestVersion",
                         <<"no dist-tags found for package ">> \o name)]
    ELSE IF ~HasKey(meta.distTags, Latest)
    THEN [ok |-> FALSE, version |-> EmptyStr,
          err |-> Errorf("NoLatestVersion",
                         <<"no latest dist-tag found for package ">> \o name)]
    ELSE [ok |-> TRUE, version |-> meta.distTags[Latest], err |-> NoErr]

\* Resolver.latestVersion: [ok, version, err]
LatestVersion(meta, name) ==
    IF meta.distTagsNil
    THEN [ok |-> FALSE, version |-> EmptyStr,
          err |-> Errorf("NoLatestVersion",
                         <<"no dist-tags found for package ">> \o name)]
    ELSE IF ~HasKey(meta.distTags, Latest) \/ meta.distTags[Latest] = EmptyStr
    THEN [ok |-> FALSE, version |-> EmptyStr,
          err |-> Errorf("NoLatestVersion",
                         <<"no latest dist-tag found for package ">> \o name)]
    ELSE [ok |-> TRUE, version |-> meta.distTags[Latest], err |-> NoErr]

\* defaultFile asking for main before module.
PickFieldMainBeforeModule(pkgInfo) ==
    IF pkgInfo.jsdelivr # EmptyStr THEN [found |-> TRUE, field |-> pkgInfo.jsdelivr]
    ELSE IF pkgInfo.unpkg # EmptyStr THEN [found |-> TRUE, field |-> pkgInfo.unpkg]
    ELSE IF pkgInfo.main # EmptyStr THEN [found |-> TRUE, field |-> pkgInfo.main]
    ELSE IF pkgInfo.module # EmptyStr THEN [found |-> TRUE, field |-> pkgInfo.module]
    ELSE [found |-> FALSE, field |-> EmptyStr]

\* defaultFile asking for unpkg before jsdelivr.
PickFieldUnpkgFirst(pkgInfo) ==
    IF pkgInfo.unpkg # EmptyStr THEN [found |-> TRUE, field |-> pkgInfo.unpkg]
    ELSE IF pkgInfo.jsdelivr # EmptyStr THEN [found |-> TRUE, field |-> pkgInfo.jsdelivr]
    ELSE IF pkgInfo.module # EmptyStr THEN [found |-> TRUE, field |-> pkgInfo.module]
    ELSE IF pkgInfo.main # EmptyStr THEN [found |-> TRUE, field |-> pkgInfo.main]
    ELSE [found |-> FALSE, field |-> EmptyStr]

\* defaultFile passing over a field that does not sanitize to a file path.
PickFieldUsable(pkgInfo) ==
    LET usable(f) == f # EmptyStr /\ SanitizeFilePath(<<"/">> \o f).ok IN
    IF usable(pkgInfo.jsdelivr) THEN [found |-> TRUE, field |-> pkgInfo.jsdelivr]
    ELSE IF usable(pkgInfo.unpkg) THEN [found |-> TRUE, field |-> pkgInfo.unpkg]
    ELSE IF usable(pkgInfo.module) THEN [found |-> TRUE, field |-> pkgInfo.module]
    ELSE IF usable(pkgInfo.main) THEN [found |-> TRUE, field |-> pkgInfo.main]
    ELSE [found |-> FALSE, field |-> EmptyStr]

\* The field defaultFile picks from one packageVersion: [found, field]
PickField(pkgInfo) ==
    IF pkgInfo.jsdelivr # EmptyStr THEN [found |-> TRUE, field |-> pkgInfo.jsdelivr]
    ELSE IF pkgInfo.unpkg # EmptyStr THEN [found |-> TRUE, field |-> pkgInfo.unpkg]
    ELSE IF pkgInfo.module # EmptyStr THEN [found |-> TRUE, field |-> pkgInfo.module]
    ELSE IF pkgInfo.main # EmptyStr THEN [found |-> TRUE, field |-> pkgInfo.main]
    ELSE [found |-> FALSE, field |-> EmptyStr]

\* defaultFile falling through to "/" + main when no field is set.
DefaultFileFallThrough(meta, packageName, name, version) ==
    IF ~HasKey(meta.versions, version)
    THEN [ok |-> FALSE, file |-> EmptyStr,
          err |-> Errorf("VersionAssetsMissing",
                         <<"no pkg information found for ">> \o name
                             \o <<" version ">> \o version)]
    ELSE LET pick == PickField(meta.versions[version]) IN
         [ok |-> TRUE, file |-> <<"/">> \o pick.field, err |-> NoErr]

\* Resolver.defaultFile: [ok, file, err]
DefaultFile(meta, packageName, name, version) ==
    IF ~HasKey(meta.versions, version)
    THEN [ok |-> FALSE, file |-> EmptyStr,
          err |-> Errorf("VersionAssetsMissing",
                         <<"no pkg information found for ">> \o name
                             \o <<" version ">> \o version)]
    ELSE LET pick == PickField(meta.versions[version]) IN
         IF pick.found
         THEN [ok |-> TRUE, file |-> <<"/">> \o pick.field, err |-> NoErr]
         ELSE [ok |-> FALSE, file |-> EmptyStr,
               err |-> Errorf("NoDefaultFile",
                              <<"no default file import found for ">> \o packageName
                                  \o <<" version ">> \o version
                                  \o <<". Add it explicitly to the CDN data file">>)]

\* cdnFiles storing the listing's hash as it came.
IntegrityRaw(hash) == hash

\* The value cdnFiles stores for one listed file.
IntegrityOf(hash) == <<"sha256-">> \o hash

\* The loop of cdnFiles over the decoded files: a later entry replaces an
\* earlier one with the same name.
RECURSIVE BuildHashes(_, _)
BuildHashes(files, acc) ==
    IF files = << >> THEN acc
    ELSE BuildHashes(Tail(files),
                     MapPut(acc, Head(files).name, IntegrityOf(Head(files).hash)))

\* includeLink naming the package instead of the snippet.
LinkErrorNamePackage(packageName, snippetName) == packageName

\* The name includeLink puts in its error.
LinkErrorName(packageName, snippetName) == snippetName

\* The lookup of includeLink in the hashes of cdnFiles: [ok, integrity, src, err]
IncludeLinkLookup(hs, packageName, version, file, snippetName) ==
    IF ~HasKey(hs, file)
    THEN [ok |-> FALSE, integrity |-> EmptyStr, src |-> EmptyStr,
          err |-> Errorf("FileNotOnCDN",
                         <<"file ">> \o file \o <<" for snippet ">>
                             \o LinkErrorName(packageName, snippetName)
                             \o <<" not found on CDN">>)]
    ELSE [ok |-> TRUE, integrity |-> hs[file],
          src |-> CdnSrc(packageName, version, file), err |-> NoErr]

\* The same lines asking defaultFile first and letting spec.file override
\* its result.
ChooseFileDefaultFirst(meta, spec, packageName) ==
    LET lv == LatestVersion(meta, spec.name) IN
    IF ~lv.ok THEN [ok |-> FALSE, version |-> EmptyStr, file |-> EmptyStr, err |-> lv.err]
    ELSE LET df == DefaultFile(meta, packageName, spec.name, lv.version) IN
         IF ~df.ok
         THEN [ok |-> FALSE, version |-> EmptyStr, file |-> EmptyStr, err |-> df.err]
         ELSE [ok |-> TRUE, version |-> lv.version,
               file |-> IF spec.file # EmptyStr THEN spec.file ELSE df.file,
               err |-> NoErr]

\* Lines 120-134 of ResolveWithContext: the version and the file before it
\* is sanitized.  [ok, version, file, err]
ChooseFile(meta, spec, packageName) ==
    LET lv == LatestVersion(meta, spec.name) IN
    IF ~lv.ok THEN [ok |-> FALSE, version |-> EmptyStr, file |-> EmptyStr, err |-> lv.err]
    ELSE IF spec.file # EmptyStr
    THEN [ok |-> TRUE, version |-> lv.version, file |-> spec.file, err |-> NoErr]
    ELSE LET df == DefaultFile(meta, packageName, spec.name, lv.version) IN
         IF ~df.ok
         THEN [ok |-> FALSE, version |-> EmptyStr, file |-> EmptyStr, err |-> df.err]
         ELSE [ok |-> TRUE, version |-> lv.version, file |-> df.file, err |-> NoErr]

----------------------------------------------------------------------------
(* The HTTP client and the two servers *)

\* What client.Do returns: err is NoErr when a response came back; decodes
\* says whether the body is the JSON the decoder accepts.
HTTPResult(err, status, decodes, body) ==
    [err |-> err, status |-> status, decodes |-> decodes, body |-> body]

\* The contexts a caller passes: context.Background() (or one derived from it
\* and not canceled), a context canceled before the call, and nil.
Background == "background"

Canceled == "canceled"

NilContext == "nil"

\* url.Parse of the URLs the resolver builds: the atom "%zz" is a percent sign
\* followed by two characters that are no hexadecimal digits; every other atom
\* of the names and versions here is made of characters a URL path takes.
BadEscape == <<"%zz">>

\* http.NewRequestWithContext(ctx, http.MethodGet, url, nil): the error it
\* returns, NoErr when it returns a request.  The nil context is refused
\* before the URL is parsed.
NewRequestWithContext(context, url) ==
    IF context = NilContext
    THEN Errorf("NilContext", <<"net/http: nil Context">>)
    ELSE IF Contains(url, BadEscape)
    THEN Errorf("InvalidURL", <<"parse ">> \o Quoted(url)
                              \o <<": invalid URL escape ">> \o Quoted(BadEscape))
    ELSE NoErr

\* client.Do wraps the transport's error in a *url.Error that unwraps to it;
\* its text is Sprintf("%s %q: %s", Op, URL, Err).
URLError(url, cause, sentinels) ==
    [kind |-> "TransportError",
     text |-> <<"Get ">> \o Quoted(url) \o <<": ">> \o cause,
     is   |-> sentinels]

\* The transport given a request whose context is already canceled returns
\* the context's error and sends nothing.
CanceledResult(url) ==
    HTTPResult(URLError(url, <<"context canceled">>, {"context.Canceled"}),
               Status(0, EmptyStr), FALSE, {})

\* The failures any request can meet: no connection, a server error, a body
\* that is not the expected JSON.
FailureResults(url) ==
    { HTTPResult(URLError(url, <<"dial tcp: connection refused">>, {}),
                 Status(0, EmptyStr), FALSE, {}),
      HTTPResult(NoErr, Status(500, <<"500", " ", "Internal Server Error">>), FALSE, {}),
      HTTPResult(NoErr, Status(StatusOK, <<"200", " ", "OK">>), FALSE, {}) }

NotFoundResult == HTTPResult(NoErr, Status(404, <<"404", " ", "Not Found">>), FALSE, {})

\* The npm registry: the document of the package the URL names, or 404.
RegistryServe(url) ==
    IF \E p \in DOMAIN registry : MetaURL(p) = url
    THEN HTTPResult(NoErr, Status(StatusOK, <<"200", " ", "OK">>), TRUE,
                    {registry[CHOOSE p \in DOMAIN registry : MetaURL(p) = url]})
    ELSE NotFoundResult

\* The jsDelivr data API: the flat listing of the package version, or 404.
CdnServe(url) ==
    IF \E k \in DOMAIN cdn : TrimRightSlash(JsDelivrDataURL) \o <<"/">> \o k \o <<"/", "flat">> = url
    THEN HTTPResult(NoErr, Status(StatusOK, <<"200", " ", "OK">>), TRUE,
                    {cdn[CHOOSE k \in DOMAIN cdn :
                           TrimRightSlash(JsDelivrDataURL) \o <<"/">> \o k \o <<"/", "flat">> = url]})
    ELSE NotFoundResult

\* Whether a result came from a server (the request reached it).
Served(r) == r.err = NoErr

\* What a call keeps of the value client.Do returned: which fetch it was
\* for, the error, the status and whether the body decodes.
Response(step, r) ==
    [step |-> step, err |-> r.err, status |-> r.status, decodes |-> r.decodes]


----------------------------------------------------------------------------
(* The cache accessors (each runs with the mutex held) *)

\* The decoding step of fetchNPMMetadata with its error ignored: the
\* zero-valued packageMetadata goes on as if decoded.
MetaDecodeIgnoringError(r) ==
    IF r.decodes THEN [ok |-> TRUE, body |-> r.body]
    ELSE [ok |-> TRUE, body |-> {PackageMetadata(TRUE, EmptyMap, EmptyMap)}]

\* json.NewDecoder(res.Body).Decode(&metaData) (lines 186-189): [ok, body]
MetaDecode(r) ==
    IF r.decodes THEN [ok |-> TRUE, body |-> r.body]
    ELSE [ok |-> FALSE, body |-> {}]

\* cachedMetadata never finding an entry.
CachedMetadataMiss(cache, pkgName) == {}

\* cachedMetadata returning whatever document the cache holds.
CachedMetadataAnyEntry(cache, pkgName) ==
    IF DOMAIN cache # {}
    THEN {cache[CHOOSE k \in DOMAIN cache : TRUE]}
    ELSE {}

\* Resolver.cachedMetadata: {} is nil
CachedMetadata(cache, pkgName) ==
    IF HasKey(cache, pkgName) THEN {cache[pkgName]} ELSE {}

\* storeMetadata replacing the map by one holding the new entry only.
StoreMetadataReset(cache, pkgName, meta) == MapPut(EmptyMap, pkgName, meta)

\* Resolver.storeMetadata
StoreMetadata(cache, pkgName, meta) == MapPut(cache, pkgName, meta)

\* cachedCDNFiles returning whatever listing the cache holds.
CachedCDNFilesAnyEntry(cache, packageName, version) ==
    IF DOMAIN cache # {}
    THEN {cache[CHOOSE k \in DOMAIN cache : TRUE]}
    ELSE {}

\* Resolver.cachedCDNFiles: {} is nil
CachedCDNFiles(cache, packageName, version) ==
    IF HasKey(cache, VersionKey(packageName, version))
    THEN {cache[VersionKey(packageName, version)]}
    ELSE {}

\* storeCDNFiles evicting every other listing.
StoreCDNFilesEvicting(cache, packageName, version, hs) ==
    MapPut(EmptyMap, VersionKey(packageName, version), hs)

\* storeCDNFiles keyed by the version alone.
StoreCDNFilesByVersion(cache, packageName, version, hs) == MapPut(cache, version, hs)

\* Resolver.storeCDNFiles
StoreCDNFiles(cache, packageName, version, hs) ==
    MapPut(cache, VersionKey(packageName, version), hs)

----------------------------------------------------------------------------
(* What fetchNPMMetadata and cdnFiles make of the result of client.Do:     *)
(* [ok, body, err]                                                         *)

DecodeError == Errorf("DecodeError", <<"invalid character in JSON body">>)

\* fetchNPMMetadata reporting a failed client.Do by its text only (%v).
MetaDoErrorFlat(err) == [err EXCEPT !.is = {}]

\* The status test treating only server errors as failures.
StatusFailsServerOnly(code) == code >= 500

\* The status test of fetchNPMMetadata and cdnFiles (lines 178 and 304).
StatusFails(code) == code # StatusOK

\* The error a failed client.Do leaves fetchNPMMetadata with.
MetaDoError(err) == err

\* lines 172-189 of fetchNPMMetadata
MetaOutcome(r, pkgName) ==
    IF r.err # NoErr
    THEN [ok |-> FALSE, body |-> {}, err |-> MetaDoError(r.err)]
    ELSE IF StatusFails(r.status.code)
    THEN [ok |-> FALSE, body |-> {},
          err |-> Errorf("MetadataUnavailable",
                         <<"can't get latest version of package ">> \o pkgName
                             \o <<" from npm: ">> \o r.status.text)]
    ELSE IF ~MetaDecode(r).ok
    THEN [ok |-> FALSE, body |-> {}, err |-> DecodeError]
    ELSE [ok |-> TRUE, body |-> MetaDecode(r).body, err |-> NoErr]

\* lines 298-324 of cdnFiles
CdnOutcome(r, url) ==
    IF r.err # NoErr
    THEN [ok |-> FALSE, body |-> {}, err |-> r.err]
    ELSE IF StatusFails(r.status.code)
    THEN [ok |-> FALSE, body |-> {},
          err |-> Errorf("ListingUnavailable",
                         <<"request to ">> \o url \o <<" failed with status ">>
                             \o r.status.text)]
    ELSE IF ~r.decodes
    THEN [ok |-> FALSE, body |-> {}, err |-> DecodeError]
    ELSE [ok |-> TRUE,
          body |-> {BuildHashes(CHOOSE files \in r.body : TRUE, EmptyMap)},
          err |-> NoErr]

\* What the transport hands back for a request of caller c.
Results(c, url, serve) ==
    IF ctx[c] = Canceled THEN {CanceledResult(url)} ELSE FailureResults(url) \cup {serve}

----------------------------------------------------------------------------
(* State *)

NoRet == [pkg |-> ZeroPackage, err |-> NoErr]

\* The call caller c made last ended in a failed fetch (step is "meta" or
\* "cdn") for package packageName.
FetchFailed(c, step, packageName) ==
    /\ pc[c] = "done"
    /\ \E r \in res[c] :
         /\ r.step = step
         /\ (r.err # NoErr \/ StatusFails(r.status.code) \/ ~r.decodes)
    /\ (IF pkg[c].packageName = EmptyStr THEN pkg[c].name ELSE pkg[c].packageName)
          = packageName

\* What is true when caller c starts a call for packageName: the counters,
\* the caches, whether the package has been resolved before, and whether the
\* caller's previous call failed fetching the metadata or the listing of the
\* same package.
Snapshot(c, packageName) ==
    [npm |-> npmCalls, cdn |-> cdnCalls, npmServed |-> npmServed,
     cdnServed |-> cdnServed, metaCache |-> metaCache, cdnCache |-> cdnCache,
     warm |-> packageName \in okPkgs,
     retryMeta |-> FetchFailed(c, "meta", packageName),
     retryCdn |-> FetchFailed(c, "cdn", packageName)]

\* NewResolver: empty caches, no call made, against upstream state w.
ResolverStart(w) ==
    /\ registry = w.registry
    /\ cdn = w.cdn
    /\ metaCache = EmptyMap
    /\ cdnCache = EmptyMap
    /\ mu = NoCaller
    /\ pc = [c \in Callers |-> "idle"]
    /\ pkg = [c \in Callers |-> PackageSpec(EmptyStr, EmptyStr, EmptyStr)]
    /\ ctx = [c \in Callers |-> Background]
    /\ resolved = [c \in Callers |-> ZeroPackage]
    /\ metaData = [c \in Callers |-> {}]
    /\ hashes = [c \in Callers |-> {}]
    /\ req = [c \in Callers |-> {}]
    /\ ret = [c \in Callers |-> NoRet]
    /\ res = [c \in Callers |-> {}]
    /\ npmCalls = 0
    /\ cdnCalls = 0
    /\ npmServed = 0
    /\ cdnServed = 0
    /\ calls = 0
    /\ snap = [c \in Callers |->
                 [npm |-> 0, cdn |-> 0, npmServed |-> 0, cdnServed |-> 0,
                  metaCache |-> EmptyMap, cdnCache |-> EmptyMap, warm |-> FALSE,
                  retryMeta |-> FALSE, retryCdn |-> FALSE]]
    /\ okPkgs = {}
    /\ cdnFor = EmptyMap

\* No generate cdn command is running.
CmdIdle ==
    /\ dryRun = FALSE
    /\ quiet = FALSE
    /\ data = << >>
    /\ idx = 0
    /\ cpc = "none"
    /\ fs = EmptyMap
    /\ stdout = << >>
    /\ wrote = {}
    /\ cmdRet = NoErr

Init ==
    /\ \E w \in Worlds : ResolverStart(w)
    /\ sanIn = EmptyStr
    /\ sanOut = {}
    /\ CmdIdle

\* return rp, e: the call of caller c ends and its locals are gone.
Return(c, rp, e) ==
    /\ pc' = [pc EXCEPT ![c] = "done"]
    /\ ret' = [ret EXCEPT ![c] = [pkg |-> rp, err |-> e]]
    /\ resolved' = [resolved EXCEPT ![c] = ZeroPackage]
    /\ metaData' = [metaData EXCEPT ![c] = {}]
    /\ hashes' = [hashes EXCEPT ![c] = {}]
    /\ req' = [req EXCEPT ![c] = {}]

\* The package name taken as given, without the default.
EffectivePackageNameAsGiven(spec) == spec.packageName

\* The package name lines 110-113 of ResolveWithContext settle on.
EffectivePackageName(spec) ==
    IF spec.packageName = EmptyStr THEN spec.name ELSE spec.packageName

\* ResolveWithContext is entered (lines 106-115).
Start(c, spec, context) ==
    /\ pc[c] \in {"idle", "done"}
    /\ calls < MaxCalls
    /\ calls' = calls + 1
    /\ pkg' = [pkg EXCEPT ![c] = spec]
    /\ ctx' = [ctx EXCEPT ![c] = context]
    /\ resolved' = [resolved EXCEPT ![c] =
                      [ResolvedPackage(spec) EXCEPT
                          !.packageName = EffectivePackageName(spec)]]
    /\ metaData' = [metaData EXCEPT ![c] = {}]
    /\ hashes' = [hashes EXCEPT ![c] = {}]
    /\ req' = [req EXCEPT ![c] = {}]
    /\ ret' = [ret EXCEPT ![c] = NoRet]
    /\ res' = [res EXCEPT ![c] = {}]
    /\ snap' = [snap EXCEPT ![c] = Snapshot(c, EffectivePackageName(spec))]
    /\ pc' = [pc EXCEPT ![c] = "metaLock"]
    /\ UNCHANGED <<registry, cdn, metaCache, cdnCache, mu, npmCalls, cdnCalls,
                   npmServed, cdnServed, okPkgs, sanVars, cmdVars, cdnFor>>

\* r.mu.Lock() not waiting for the holder to unlock.
LockNoWait(c, at, next) ==
    /\ pc[c] = at
    /\ mu' = c
    /\ pc' = [pc EXCEPT ![c] = next]
    /\ UNCHANGED <<registry, cdn, metaCache, cdnCache, pkg, ctx, resolved,
                   metaData, hashes, req, ret, npmCalls, cdnCalls, npmServed,
                   cdnServed, calls, snap, okPkgs, res, sanVars, cmdVars, cdnFor>>

\* r.mu.Lock() of one of the four cache accessors.
Lock(c, at, next) ==
    /\ pc[c] = at
    /\ mu = NoCaller
    /\ mu' = c
    /\ pc' = [pc EXCEPT ![c] = next]
    /\ UNCHANGED <<registry, cdn, metaCache, cdnCache, pkg, ctx, resolved,
                   metaData, hashes, req, ret, npmCalls, cdnCalls, npmServed,
                   cdnServed, calls, snap, okPkgs, res, sanVars, cmdVars, cdnFor>>

CachedMetadataLock(c) == Lock(c, "metaLock", "metaRead")

\* cachedMetadata reads the map and unlocks; fetchNPMMetadata returns a hit.
CachedMetadataRead(c) ==
    /\ pc[c] = "metaRead"
    /\ mu = c
    /\ mu' = NoCaller
    /\ LET meta == CachedMetadata(metaCache, resolved[c].packageName) IN
         IF meta # {}
         THEN /\ metaData' = [metaData EXCEPT ![c] = meta]
              /\ pc' = [pc EXCEPT ![c] = "select"]
         ELSE /\ metaData' = metaData
              /\ pc' = [pc EXCEPT ![c] = "metaDo"]
    /\ UNCHANGED <<registry, cdn, metaCache, cdnCache, pkg, ctx, resolved,
                   hashes, req, ret, npmCalls, cdnCalls, npmServed, cdnServed,
                   calls, snap, okPkgs, res, sanVars, cmdVars, cdnFor>>

\* fetchNPMMetadata checking ctx.Err() itself before it builds the request.
MetaDoChecked(c) ==
    /\ pc[c] = "metaDo"
    /\ IF ctx[c] = Canceled
       THEN /\ Return(c, ZeroPackage,
                      [kind |-> "TransportError", text |-> <<"context canceled">>,
                       is |-> {"context.Canceled"}])
            /\ UNCHANGED npmCalls
       ELSE LET url == MetaURL(resolved[c].packageName)
                nr  == NewRequestWithContext(ctx[c], url)
            IN  IF nr # NoErr
                THEN /\ Return(c, ZeroPackage, nr)
                     /\ UNCHANGED npmCalls
                ELSE /\ req' = [req EXCEPT ![c] = {url}]
                     /\ npmCalls' = npmCalls + 1
                     /\ pc' = [pc EXCEPT ![c] = "metaWait"]
                     /\ UNCHANGED <<resolved, metaData, hashes, ret>>
    /\ UNCHANGED <<registry, cdn, metaCache, cdnCache, mu, pkg, ctx,
                   cdnCalls, npmServed, cdnServed, calls, snap, okPkgs, res, sanVars, cmdVars, cdnFor>>

\* http.NewRequestWithContext and client.Do of fetchNPMMetadata (lines
\* 167-172): when no request can be built its error is returned and nothing
\* goes to the transport; otherwise the request goes to the transport.
MetaDo(c) ==
    /\ pc[c] = "metaDo"
    /\ LET url == MetaURL(resolved[c].packageName)
           nr  == NewRequestWithContext(ctx[c], url)
       IN  IF nr # NoErr
           THEN /\ Return(c, ZeroPackage, nr)
                /\ UNCHANGED npmCalls
           ELSE /\ req' = [req EXCEPT ![c] = {url}]
                /\ npmCalls' = npmCalls + 1
                /\ pc' = [pc EXCEPT ![c] = "metaWait"]
                /\ UNCHANGED <<resolved, metaData, hashes, ret>>
    /\ UNCHANGED <<registry, cdn, metaCache, cdnCache, mu, pkg, ctx,
                   cdnCalls, npmServed, cdnServed,
                   calls, snap, okPkgs, res, sanVars, cmdVars, cdnFor>>

\* client.Do returns; lines 172-189 of fetchNPMMetadata.
MetaResponse(c) ==
    /\ pc[c] = "metaWait"
    /\ \E url \in req[c] :
       \E r \in Results(c, url, RegistryServe(url)) :
         LET out == MetaOutcome(r, resolved[c].packageName) IN
         /\ npmServed' = npmServed + (IF Served(r) THEN 1 ELSE 0)
         /\ res' = [res EXCEPT ![c] = {Response("meta", r)}]
         /\ IF out.ok
            THEN /\ metaData' = [metaData EXCEPT ![c] = out.body]
                 /\ req' = [req EXCEPT ![c] = {}]
                 /\ pc' = [pc EXCEPT ![c] = "metaStoreLock"]
                 /\ UNCHANGED <<ret, resolved, hashes>>
            ELSE Return(c, ZeroPackage, out.err)
    /\ UNCHANGED <<registry, cdn, metaCache, cdnCache, mu, pkg, ctx, npmCalls,
                   cdnCalls, cdnServed, calls, snap, okPkgs, sanVars, cmdVars, cdnFor>>

StoreMetadataLock(c) == Lock(c, "metaStoreLock", "metaStore")

\* storeMetadata returning without r.mu.Unlock().
StoreMetadataWriteKeepingLock(c) ==
    /\ pc[c] = "metaStore"
    /\ mu = c
    /\ mu' = mu
    /\ \E meta \in metaData[c] :
         metaCache' = StoreMetadata(metaCache, resolved[c].packageName, meta)
    /\ pc' = [pc EXCEPT ![c] = "select"]
    /\ UNCHANGED <<registry, cdn, cdnCache, pkg, ctx, resolved, metaData,
                   hashes, req, ret, npmCalls, cdnCalls, npmServed, cdnServed,
                   calls, snap, okPkgs, res, sanVars, cmdVars, cdnFor>>

\* storeMetadata writes the map and unlocks.
StoreMetadataWrite(c) ==
    /\ pc[c] = "metaStore"
    /\ mu = c
    /\ mu' = NoCaller
    /\ \E meta \in metaData[c] :
         metaCache' = StoreMetadata(metaCache, resolved[c].packageName, meta)
    /\ pc' = [pc EXCEPT ![c] = "select"]
    /\ UNCHANGED <<registry, cdn, cdnCache, pkg, ctx, resolved, metaData,
                   hashes, req, ret, npmCalls, cdnCalls, npmServed, cdnServed,
                   calls, snap, okPkgs, res, sanVars, cmdVars, cdnFor>>

\* latestVersion and defaultFile (lines 120-134).
Select(c) ==
    /\ pc[c] = "select"
    /\ \E meta \in metaData[c] :
         LET sel == ChooseFile(meta, pkg[c], resolved[c].packageName) IN
         IF sel.ok
         THEN /\ resolved' = [resolved EXCEPT ![c] =
                                [@ EXCEPT !.version = sel.version, !.file = sel.file]]
              /\ pc' = [pc EXCEPT ![c] = "sanitize"]
              /\ UNCHANGED <<ret, metaData, hashes, req>>
         ELSE Return(c, ZeroPackage, sel.err)
    /\ UNCHANGED <<registry, cdn, metaCache, cdnCache, mu, pkg, ctx, npmCalls,
                   cdnCalls, npmServed, cdnServed, calls, snap, okPkgs, res, sanVars, cmdVars, cdnFor>>

\* sanitizeFilePath(resolved.File) (lines 136-141).
SanitizeFile(c) ==
    /\ pc[c] = "sanitize"
    /\ LET sf == SanitizeFilePath(resolved[c].file) IN
         IF sf.ok
         THEN /\ resolved' = [resolved EXCEPT ![c] = [@ EXCEPT !.file = sf.path]]
              /\ pc' = [pc EXCEPT ![c] = "cdnLock"]
              /\ UNCHANGED <<ret, metaData, hashes, req>>
         ELSE Return(c, ZeroPackage, sf.err)
    /\ UNCHANGED <<registry, cdn, metaCache, cdnCache, mu, pkg, ctx, npmCalls,
                   cdnCalls, npmServed, cdnServed, calls, snap, okPkgs, res, sanVars, cmdVars, cdnFor>>

CachedCDNFilesLock(c) == Lock(c, "cdnLock", "cdnRead")

\* cdnFiles looking at ctx.Err() before it takes a hit from the cache.
CachedCDNFilesReadCheckingContext(c) ==
    /\ pc[c] = "cdnRead"
    /\ mu = c
    /\ mu' = NoCaller
    /\ LET hs == CachedCDNFiles(cdnCache, resolved[c].packageName, resolved[c].version) IN
         IF hs # {} /\ ctx[c] # Canceled
         THEN /\ hashes' = [hashes EXCEPT ![c] = hs]
              /\ pc' = [pc EXCEPT ![c] = "link"]
         ELSE /\ hashes' = hashes
              /\ pc' = [pc EXCEPT ![c] = "cdnDo"]
    /\ UNCHANGED <<registry, cdn, metaCache, cdnCache, pkg, ctx, resolved,
                   metaData, req, ret, npmCalls, cdnCalls, npmServed, cdnServed,
                   calls, snap, okPkgs, res, sanVars, cmdVars, cdnFor>>

\* cachedCDNFiles reads the map and unlocks; cdnFiles returns a hit.
CachedCDNFilesRead(c) ==
    /\ pc[c] = "cdnRead"
    /\ mu = c
    /\ mu' = NoCaller
    /\ LET hs == CachedCDNFiles(cdnCache, resolved[c].packageName, resolved[c].version) IN
         IF hs # {}
         THEN /\ hashes' = [hashes EXCEPT ![c] = hs]
              /\ pc' = [pc EXCEPT ![c] = "link"]
         ELSE /\ hashes' = hashes
              /\ pc' = [pc EXCEPT ![c] = "cdnDo"]
    /\ UNCHANGED <<registry, cdn, metaCache, cdnCache, pkg, ctx, resolved,
                   metaData, req, ret, npmCalls, cdnCalls, npmServed, cdnServed,
                   calls, snap, okPkgs, res, sanVars, cmdVars, cdnFor>>

\* http.NewRequestWithContext and client.Do of cdnFiles (lines 293-298):
\* when no request can be built its error is returned and nothing goes to
\* the transport; otherwise the request goes to the transport.
CdnDo(c) ==
    /\ pc[c] = "cdnDo"
    /\ LET url == FlatURL(resolved[c].packageName, resolved[c].version)
           nr  == NewRequestWithContext(ctx[c], url)
       IN  IF nr # NoErr
           THEN /\ Return(c, ZeroPackage, nr)
                /\ UNCHANGED cdnCalls
           ELSE /\ req' = [req EXCEPT ![c] = {url}]
                /\ cdnCalls' = cdnCalls + 1
                /\ pc' = [pc EXCEPT ![c] = "cdnWait"]
                /\ UNCHANGED <<resolved, metaData, hashes, ret>>
    /\ UNCHANGED <<registry, cdn, metaCache, cdnCache, mu, pkg, ctx,
                   npmCalls, npmServed, cdnServed,
                   calls, snap, okPkgs, res, sanVars, cmdVars, cdnFor>>

\* cdnFiles asking a second time when its first request fails.
CdnResponseRetryOnce(c) ==
    /\ pc[c] = "cdnWait"
    /\ \E url \in req[c] :
       \E r \in Results(c, url, CdnServe(url)) :
         LET out == CdnOutcome(r, url) IN
         /\ cdnServed' = cdnServed + (IF Served(r) THEN 1 ELSE 0)
         /\ res' = [res EXCEPT ![c] = {Response("cdn", r)}]
         /\ IF out.ok
            THEN /\ hashes' = [hashes EXCEPT ![c] = out.body]
                 /\ req' = [req EXCEPT ![c] = {}]
                 /\ pc' = [pc EXCEPT ![c] = "cdnStoreLock"]
                 /\ UNCHANGED <<ret, resolved, metaData>>
            ELSE IF cdnCalls = snap[c].cdn + 1
            THEN /\ pc' = [pc EXCEPT ![c] = "cdnDo"]
                 /\ req' = [req EXCEPT ![c] = {}]
                 /\ UNCHANGED <<ret, resolved, metaData, hashes>>
            ELSE Return(c, ZeroPackage, out.err)
    /\ UNCHANGED <<registry, cdn, metaCache, cdnCache, mu, pkg, ctx, npmCalls,
                   cdnCalls, npmServed, calls, snap, okPkgs, sanVars, cmdVars, cdnFor>>

\* client.Do returns; lines 298-324 of cdnFiles.
CdnResponse(c) ==
    /\ pc[c] = "cdnWait"
    /\ \E url \in req[c] :
       \E r \in Results(c, url, CdnServe(url)) :
         LET out == CdnOutcome(r, url) IN
         /\ cdnServed' = cdnServed + (IF Served(r) THEN 1 ELSE 0)
         /\ res' = [res EXCEPT ![c] = {Response("cdn", r)}]
         /\ IF out.ok
            THEN /\ hashes' = [hashes EXCEPT ![c] = out.body]
                 /\ req' = [req EXCEPT ![c] = {}]
                 /\ pc' = [pc EXCEPT ![c] = "cdnStoreLock"]
                 /\ UNCHANGED <<ret, resolved, metaData>>
            ELSE Return(c, ZeroPackage, out.err)
    /\ UNCHANGED <<registry, cdn, metaCache, cdnCache, mu, pkg, ctx, npmCalls,
                   cdnCalls, npmServed, calls, snap, okPkgs, sanVars, cmdVars, cdnFor>>

StoreCDNFilesLock(c) == Lock(c, "cdnStoreLock", "cdnStore")

\* storeCDNFiles writes the map and unlocks.
StoreCDNFilesWrite(c) ==
    /\ pc[c] = "cdnStore"
    /\ mu = c
    /\ mu' = NoCaller
    /\ \E hs \in hashes[c] :
         cdnCache' = StoreCDNFiles(cdnCache, resolved[c].packageName,
                                   resolved[c].version, hs)
    /\ cdnFor' = MapPut(cdnFor, VersionKey(resolved[c].packageName, resolved[c].version),
                        [packageName |-> resolved[c].packageName,
                         version |-> resolved[c].version])
    /\ pc' = [pc EXCEPT ![c] = "link"]
    /\ UNCHANGED <<registry, cdn, metaCache, pkg, ctx, resolved, metaData,
                   hashes, req, ret, npmCalls, cdnCalls, npmServed, cdnServed,
                   calls, snap, okPkgs, res, sanVars, cmdVars>>

\* The lookup of includeLink and the return of ResolveWithContext
\* (lines 269-274 and 150-157).
IncludeLink(c) ==
    /\ pc[c] = "link"
    /\ \E hs \in hashes[c] :
         LET r    == resolved[c]
             link == IncludeLinkLookup(hs, r.packageName, r.version, r.file, r.name)
         IN
         IF link.ok
         THEN /\ Return(c, [r EXCEPT !.integrity = link.integrity, !.src = link.src],
                        NoErr)
              /\ okPkgs' = okPkgs \cup {r.packageName}
         ELSE /\ Return(c, ZeroPackage, link.err)
              /\ okPkgs' = okPkgs
    /\ UNCHANGED <<registry, cdn, metaCache, cdnCache, mu, pkg, ctx, npmCalls,
                   cdnCalls, npmServed, cdnServed, calls, snap, res, sanVars, cmdVars, cdnFor>>

Step(c) ==
    \/ CachedMetadataLock(c)
    \/ CachedMetadataRead(c)
    \/ MetaDo(c)
    \/ MetaResponse(c)
    \/ StoreMetadataLock(c)
    \/ StoreMetadataWrite(c)
    \/ Select(c)
    \/ SanitizeFile(c)
    \/ CachedCDNFilesLock(c)
    \/ CachedCDNFilesRead(c)
    \/ CdnDo(c)
    \/ CdnResponse(c)
    \/ StoreCDNFilesLock(c)
    \/ StoreCDNFilesWrite(c)
    \/ IncludeLink(c)

\* Resolve calls made one after another by one caller.
Next ==
    \/ \E spec \in PackageSpecs : Start(SeqCaller, spec, Background)
    \/ \E spec \in CanceledSpecs : Start(SeqCaller, spec, Canceled)
    \/ \E c \in Callers : Step(c)

Spec == Init /\ [][Next]_vars


----------------------------------------------------------------------------
(* Resolve calls made concurrently on one Resolver by the callers, against  *)
(* the registry of the end-to-end scenario.                                 *)

ConcWorlds == { [registry |-> RegistryOf(FieldDoc(FJ, FU, FM, FN)),
                 cdn |-> CdnOf(FullListing)] }

ConcSpecs == { ScenarioSpec, PackageSpec(Bar, EmptyStr, EmptyStr) }

InitConc ==
    /\ \E w \in ConcWorlds : ResolverStart(w)
    /\ sanIn = EmptyStr
    /\ sanOut = {}
    /\ CmdIdle

NextConc ==
    \/ \E c \in Callers, spec \in ConcSpecs : Start(c, spec, Background)
    \/ \E c \in Callers : Step(c)

SpecConc == InitConc /\ [][NextConc]_vars

\* The scheduling the return of a call rests on: a goroutine that can run
\* takes its next step, a request handed to the transport comes back with a
\* response or an error, and a goroutine waiting in r.mu.Lock() gets the
\* lock when it is released again and again (sync.Mutex hands the lock to a
\* waiter that starves).
Fairness == \A c \in Callers : SF_vars(Step(c))

\* Every caller is a goroutine that makes one call.
NextConcOnce ==
    \/ \E c \in Callers, spec \in ConcSpecs : pc[c] = "idle" /\ Start(c, spec, Background)
    \/ \E c \in Callers : Step(c)

SpecConcFair == InitConc /\ [][NextConcOnce]_vars /\ Fairness

----------------------------------------------------------------------------
(* Calls made one after another against a registry whose package names and *)
(* versions hold the "@" the listing key is joined with.                   *)

PkgA == <<"a">>

PkgAB == <<"a", "@", "b">>

Scoped == <<"@", "s", "/", "p">>

VC == <<"c">>

VBC == <<"b", "@", "c">>

\* The document of a package whose only version v is its latest.
AtDoc(v, pv) == PackageMetadata(FALSE, OneTag(Latest, v), [k \in {v} |-> pv])

\* a has the latest version b@c, a@b the latest version c, @s/p the latest
\* version 1.2.3, and d the latest version 1%zz.
AtRegistry ==
    [p \in {PkgA, PkgAB, Scoped, <<"d">>} |->
        IF p = PkgA THEN AtDoc(VBC, PackageVersion(FJ, FU, FM, FN))
        ELSE IF p = PkgAB THEN AtDoc(VC, PackageVersion(EmptyStr, EmptyStr, EmptyStr, FN))
        ELSE IF p = <<"d">>
        THEN AtDoc(<<"1">> \o BadEscape, PackageVersion(FJ, EmptyStr, EmptyStr, EmptyStr))
        ELSE AtDoc(V1, PackageVersion(EmptyStr, FU, FM, FN))]

\* The data API serves a listing per URL; the URL of a at b@c is the URL of
\* a@b at c.
AtCdn ==
    [k \in {VersionKey(PkgA, VBC), VersionKey(Scoped, V1)} |-> FullListing]

AtWorlds == { [registry |-> AtRegistry, cdn |-> AtCdn] }

\* The packages asked for: the three above, a package name no URL can be
\* built from, and the package d, whose latest version is one no URL can be
\* built from.
AtSpecs ==
    { PackageSpec(<<"snippet1">>, EmptyStr, p) :
        p \in {PkgA, PkgAB, Scoped, BadEscape, <<"d">>} }

InitAt ==
    /\ \E w \in AtWorlds : ResolverStart(w)
    /\ sanIn = EmptyStr
    /\ sanOut = {}
    /\ CmdIdle

NextAt ==
    \/ \E spec \in AtSpecs : Start(SeqCaller, spec, Background)
    \/ Start(SeqCaller, PackageSpec(<<"snippet1">>, EmptyStr, PkgA), NilContext)
    \/ \E c \in Callers : Step(c)

SpecAt == InitAt /\ [][NextAt]_vars

----------------------------------------------------------------------------
(* sanitizeFilePath on its own, over every short string of path atoms *)

PathAtoms == {" ", "/", ".", "foo.js"}

PathInputs == UNION { [1..n -> PathAtoms] : n \in 0..MaxPathLen }

InitSan ==
    /\ ResolverStart(CHOOSE w \in Worlds : TRUE)
    /\ sanIn \in PathInputs
    /\ sanOut = {}
    /\ CmdIdle

Sanitize ==
    /\ sanOut = {}
    /\ sanOut' = {SanitizeFilePath(sanIn)}
    /\ UNCHANGED <<sanIn, resolverVars, cmdVars>>

NextSan == Sanitize

SpecSan == InitSan /\ [][NextSan]_vars

----------------------------------------------------------------------------
(* Printer.WriteFile and the generate cdn command (runCommand,             *)
(* writePackage, getTemplate).  The command resolves the packages of the   *)
(* data file one after another on the Resolver it made, as caller SeqCaller.*)

\* fmt.Errorf(prefix + "%w", err): the text is prefixed, the chain keeps err.
Wrapf(kind, prefix, err) ==
    [kind |-> kind, text |-> prefix \o err.text, is |-> err.is, wraps |-> <<err>>]

\* Options.OutputDirectory, Options.TemplateDir, Options.DataFile
OutputDirectory == <<"out">>

TemplateDir == <<"templates">>

DataFile == <<"cdn.yml">>

\* filepath.Join(opts.OutputDirectory, resolved.Name+".mdx"): the two joined
\* by the separator and cleaned, so names that differ only in what Clean
\* removes share an output path.
OutPath(name) == Clean(OutputDirectory \o <<"/">> \o name \o <<".mdx">>)

\* filepath.Join(opts.TemplateDir, name+"*")
TemplatePattern(name) == Clean(TemplateDir \o <<"/">> \o name \o <<"*">>)

\* What t.Execute(w, resolved) writes when it runs to its end, and what it has
\* written when it fails on the way.
Rendered(rp) == [of |-> rp, complete |-> TRUE]

PartlyRendered(rp) == [of |-> rp, complete |-> FALSE]

\* The content of a file that was there before the command ran.
OldContent == [of |-> ZeroPackage, complete |-> TRUE]

ExecError == Errorf("TemplateExec", <<"template: executing failed">>)

CreateError == Errorf("Create", <<"open: permission denied">>)

CloseError == Errorf("Close", <<"close: input/output error">>)

ValidateError == Errorf("Validate", <<"data file does not exist">>)

ReadError == Errorf("Read", <<"yaml: unmarshal errors">>)

MkdirError == Errorf("Mkdir", <<"mkdir: permission denied">>)

ParseError == Errorf("TemplateParse", <<"template: parse error">>)

\* The write callback writePackage hands to WriteFile: t.Execute(w, resolved),
\* which either renders rp or fails after writing a part of it.
ExecuteResults(rp) ==
    { [err |-> NoErr, content |-> Rendered(rp)],
      [err |-> ExecError, content |-> PartlyRendered(rp)] }

\* The atom that stands for the grave accent (U+0060), a character no string
\* of this module can hold.
Backquote == "U+0060"

\* Printer.Infof
Infof(msg) == IF quiet THEN stdout ELSE Append(stdout, msg)

\* Printer.WriteFile(path, write), where write behaves as cb, os.Create
\* succeeds iff createOK and output.Close succeeds iff closeOK.  The result is
\* the returned error, the files and the output afterwards, and whether the
\* callback ran.
WriteFileAlwaysCreates(path, cb, createOK, closeOK) ==
    IF ~createOK
    THEN [err |-> Wrapf("WriteFile", <<"create ">> \o path \o <<": ">>, CreateError),
          fs |-> fs, stdout |-> stdout, ran |-> FALSE]
    ELSE IF cb.err # NoErr
    THEN [err |-> Wrapf("WriteFile", <<"write ">> \o path \o <<": ">>, cb.err),
          fs |-> MapPut(fs, path, cb.content), stdout |-> stdout, ran |-> TRUE]
    ELSE IF ~closeOK
    THEN [err |-> Wrapf("WriteFile", <<"close ">> \o path \o <<": ">>, CloseError),
          fs |-> MapPut(fs, path, cb.content), stdout |-> stdout, ran |-> TRUE]
    ELSE [err |-> NoErr, fs |-> MapPut(fs, path, cb.content),
          stdout |-> stdout, ran |-> TRUE]

WriteFile(path, cb, createOK, closeOK) ==
    IF dryRun
    THEN IF cb.err # NoErr
         THEN [err |-> Wrapf("WriteFile",
                             <<"render dry-run ">> \o path \o <<": ">>, cb.err),
               fs |-> fs, stdout |-> stdout, ran |-> TRUE]
         ELSE [err |-> NoErr, fs |-> fs,
               stdout |-> Infof(<<"Dry run: would write ">> \o path),
               ran |-> TRUE]
    ELSE IF ~createOK
    THEN [err |-> Wrapf("WriteFile", <<"create ">> \o path \o <<": ">>, CreateError),
          fs |-> fs, stdout |-> stdout, ran |-> FALSE]
    ELSE IF cb.err # NoErr
    THEN [err |-> Wrapf("WriteFile", <<"write ">> \o path \o <<": ">>, cb.err),
          fs |-> MapPut(fs, path, cb.content), stdout |-> stdout, ran |-> TRUE]
    ELSE IF ~closeOK
    THEN [err |-> Wrapf("WriteFile", <<"close ">> \o path \o <<": ">>, CloseError),
          fs |-> MapPut(fs, path, cb.content), stdout |-> stdout, ran |-> TRUE]
    ELSE [err |-> NoErr, fs |-> MapPut(fs, path, cb.content),
          stdout |-> stdout, ran |-> TRUE]

\* The ends of the names of the files of a template directory that start
\* with the name of a package and are not its primary file, in byte order.
TemplateSuffixes == <<"_one.tmpl", "_three.tmpl", "_two.tmpl">>

\* The files the pattern of name can match: the pattern with a suffix in the
\* place of its final "*".
TemplateFiles(name) ==
    LET pattern == TemplatePattern(name) IN
    { SubSeq(pattern, 1, Len(pattern) - 1) \o <<TemplateSuffixes[i]>> :
        i \in 1..Len(TemplateSuffixes) }

\* The order of Go strings, on the file names of a template directory: two
\* of them differ first in an atom of TemplateSuffixes, which decides.
RECURSIVE StringLess(_, _)
StringLess(a, b) ==
    IF b = << >> THEN FALSE
    ELSE IF a = << >> THEN TRUE
    ELSE IF Head(a) = Head(b) THEN StringLess(Tail(a), Tail(b))
    ELSE \E i, j \in 1..Len(TemplateSuffixes) :
            i < j /\ TemplateSuffixes[i] = Head(a) /\ TemplateSuffixes[j] = Head(b)

RECURSIVE InsertString(_, _)
InsertString(x, s) ==
    IF s = << >> THEN <<x>>
    ELSE IF StringLess(Head(s), x) THEN <<Head(s)>> \o InsertString(x, Tail(s))
    ELSE <<x>> \o s

\* sort.Strings
RECURSIVE SortStrings(_)
SortStrings(s) ==
    IF s = << >> THEN s ELSE InsertString(Head(s), SortStrings(Tail(s)))

\* strings.Join
RECURSIVE JoinStrings(_, _)
JoinStrings(elems, sep) ==
    IF elems = << >> THEN EmptyStr
    ELSE IF Len(elems) = 1 THEN Head(elems)
    ELSE Head(elems) \o sep \o JoinStrings(Tail(elems), sep)

\* The directory listing filepath.Glob reads, which comes sorted by name.
RECURSIVE ReadDirNames(_)
ReadDirNames(files) ==
    IF files = {} THEN << >>
    ELSE LET first == CHOOSE f \in files :
                         \A g \in files \ {f} : StringLess(f, g)
         IN  <<first>> \o ReadDirNames(files \ {first})

\* filepath.Glob(pattern) in a directory whose files matching the pattern
\* are files.  A pattern holding "[" is refused with filepath.ErrBadPattern:
\* the names here hold no "]", so a "[" opens a character class that never
\* closes.  [err, matches]
Glob(pattern, files) ==
    IF Contains(pattern, <<"[">>)
    THEN [err |-> [kind |-> "BadPattern", text |-> <<"syntax error in pattern">>,
                   is |-> {"filepath.ErrBadPattern"}],
          matches |-> << >>]
    ELSE [err |-> NoErr, matches |-> ReadDirNames(files)]

\* getTemplate(name, opts) in a template directory where os.Stat of the
\* primary file name.mdx.tmpl returns stat ("found" for nil, "absent" for an
\* error that is os.ErrNotExist, "denied" for another error), the files the
\* pattern name* can match are files, and the file found parses iff parses.
\* The result is the error.
GetTemplate(name, stat, files, parses) ==
    IF stat = "found"
    THEN IF parses THEN NoErr ELSE ParseError
    ELSE IF stat # "absent"
    THEN LET primary == Clean(TemplateDir \o <<"/">> \o name \o <<".mdx.tmpl">>)
         IN  [kind |-> "Stat",
              text |-> <<"stat ">> \o primary \o <<": permission denied">>,
              is |-> {"fs.ErrPermission"}]
    ELSE LET pattern == TemplatePattern(name)
             g == Glob(pattern, files)
         IN  IF g.err # NoErr THEN g.err
             ELSE IF Len(g.matches) = 0
             THEN Errorf("NoTemplate", <<"no template files matched ">> \o pattern)
             ELSE IF Len(g.matches) > 1
             THEN Errorf("ManyTemplates",
                         <<"multiple template files matched for ">> \o name
                         \o <<": ">> \o JoinStrings(SortStrings(g.matches), <<", ">>))
             ELSE IF parses THEN NoErr ELSE ParseError

\* Most files the pattern of getTemplate matches.
MaxMatches == 2

\* The packages of the data files (one with a name filepath.Glob refuses, one
\* whose name differs from the scenario's only in a leading "./", so that
\* the two share an output path), and the data files: up to MaxCalls
\* packages in any order, the same package twice included.
CmdSpecs ==
    ConcSpecs \cup { PackageSpec(<<"a", "[">>, EmptyStr, Foo),
                     PackageSpec(<<".", "/">> \o ScenarioSpec.name, EmptyStr, Foo) }

DataFiles == UNION { [1..n -> CmdSpecs] : n \in 0..MaxCalls }

\* The output directory before the command runs: empty, or holding an output
\* of an earlier run.
InitialFiles ==
    { EmptyMap, MapPut(EmptyMap, OutPath(ScenarioSpec.name), OldContent) }

\* The command was invoked: flags parsed, Printer made, nothing done yet.
InitCmd ==
    /\ \E w \in ConcWorlds : ResolverStart(w)
    /\ sanIn = EmptyStr
    /\ sanOut = {}
    /\ dryRun \in BOOLEAN
    /\ quiet \in BOOLEAN
    /\ data \in DataFiles
    /\ idx = 0
    /\ cpc = "start"
    /\ fs \in InitialFiles
    /\ stdout = << >>
    /\ wrote = {}
    /\ cmdRet = NoErr

\* return err from runCommand
CmdReturn(err) ==
    /\ cpc' = "returned"
    /\ cmdRet' = err

\* runCommand up to its loop: validateOptions, readCDNDataFile, os.MkdirAll
\* (skipped in a dry run), NewResolver.  outcome names the first of them that
\* fails, or "ok".
RunCommand ==
    /\ cpc = "start"
    /\ \E outcome \in {"ok", "validate", "read", "mkdir"} :
         CASE outcome = "validate" ->
                CmdReturn(ValidateError) /\ UNCHANGED idx
           [] outcome = "read" ->
                /\ CmdReturn(Wrapf("ReadData", <<"read CDN data file ">> \o DataFile
                                                \o <<": ">>, ReadError))
                /\ UNCHANGED idx
           [] outcome = "mkdir" ->
                /\ ~dryRun
                /\ CmdReturn(Wrapf("MakeDir", <<"create output directory ">>
                                               \o OutputDirectory \o <<": ">>,
                                   MkdirError))
                /\ UNCHANGED idx
           [] OTHER ->
                /\ idx' = 1
                /\ cpc' = "loop"
                /\ UNCHANGED cmdRet
    /\ UNCHANGED <<dryRun, quiet, data, fs, stdout, wrote, resolverVars, sanVars>>

\* The loop of runCommand after writePackage returned err for data[idx].
LoopStepKeepsGoing(err) ==
    /\ idx' = idx + 1
    /\ UNCHANGED <<cpc, cmdRet>>

LoopStep(err) ==
    IF err # NoErr
    THEN CmdReturn(err) /\ UNCHANGED idx
    ELSE /\ idx' = idx + 1
         /\ UNCHANGED <<cpc, cmdRet>>

\* The loop of runCommand reaches data[idx]; writePackage calls
\* resolver.ResolveWithContext(ctx, pkg) with the command's context.
WritePackageResolve ==
    /\ cpc = "loop"
    /\ idx <= Len(data)
    /\ calls < idx
    /\ Start(SeqCaller, data[idx], Background)

\* The Resolve call of writePackage runs.
WritePackageResolving ==
    /\ cpc = "loop"
    /\ Step(SeqCaller)

\* writePackage after ResolveWithContext returned: getTemplate, WriteFile and
\* the message, and the loop of runCommand after it.
WritePackage ==
    /\ cpc = "loop"
    /\ idx <= Len(data)
    /\ calls = idx
    /\ pc[SeqCaller] = "done"
    /\ LET name == data[idx].name
           rp == ret[SeqCaller].pkg
       IN  IF ret[SeqCaller].err # NoErr
           THEN /\ LoopStep(Wrapf("ResolvePackage", <<"resolve package ">> \o name
                                                     \o <<": ">>, ret[SeqCaller].err))
                /\ UNCHANGED <<fs, stdout, wrote>>
           ELSE \E stat \in {"found", "absent", "denied"},
                   files \in { fl \in SUBSET TemplateFiles(rp.name) :
                                  Cardinality(fl) <= MaxMatches },
                   parses \in BOOLEAN :
                  LET terr == GetTemplate(rp.name, stat, files, parses)
                  IN  IF terr # NoErr
                      THEN /\ LoopStep(Wrapf("LoadTemplate", <<"load template for ">>
                                                  \o rp.name \o <<": ">>, terr))
                           /\ UNCHANGED <<fs, stdout, wrote>>
                      ELSE \E cb \in ExecuteResults(rp), createOK \in BOOLEAN,
                              closeOK \in BOOLEAN :
                             LET out == OutPath(rp.name)
                                 w == WriteFile(out, cb, createOK, closeOK)
                             IN  /\ fs' = w.fs
                                 /\ wrote' = {[at |-> idx, path |-> out, cb |-> cb,
                                               ran |-> w.ran, err |-> w.err]}
                                 /\ IF w.err # NoErr
                                    THEN /\ LoopStep(Wrapf("WriteOutput",
                                                <<"write output for ">> \o rp.name
                                                \o <<": ">>, w.err))
                                         /\ stdout' = w.stdout
                                    ELSE /\ LoopStep(NoErr)
                                         /\ stdout' =
                                              IF dryRun \/ quiet
                                              THEN w.stdout
                                              ELSE Append(w.stdout,
                                                     <<"Writing include snippets for ">>
                                                     \o <<Backquote>> \o rp.name \o <<Backquote, " (">>
                                                     \o rp.packageName \o <<") version ">>
                                                     \o rp.version)
    /\ UNCHANGED <<dryRun, quiet, data, resolverVars, sanVars>>

\* The loop of runCommand is over: return nil.
RunCommandEnd ==
    /\ cpc = "loop"
    /\ idx > Len(data)
    /\ CmdReturn(NoErr)
    /\ UNCHANGED <<dryRun, quiet, data, idx, fs, stdout, wrote, resolverVars, sanVars>>

NextCmd ==
    \/ RunCommand
    \/ WritePackageResolve
    \/ WritePackageResolving
    \/ WritePackage
    \/ RunCommandEnd

SpecCmd == InitCmd /\ [][NextCmd]_vars

----------------------------------------------------------------------------
(* Lexical normalization stated on path segments, for comparison with the  *)
(* character loop above.                                                   *)

\* The segments of s between separators (empty segments included).
RECURSIVE Segments(_, _, _)
Segments(s, cur, acc) ==
    IF s = << >> THEN Append(acc, cur)
    ELSE IF Head(s) = "/" THEN Segments(Tail(s), << >>, Append(acc, cur))
    ELSE Segments(Tail(s), Append(cur, Head(s)), acc)

\* Empty and "." segments vanish; ".." removes the segment before it, if any.
RECURSIVE Collapse(_, _)
Collapse(segs, stack) ==
    IF segs = << >> THEN stack
    ELSE LET sg == Head(segs) IN
         IF sg = << >> \/ sg = <<".">> THEN Collapse(Tail(segs), stack)
         ELSE IF sg = <<".", ".">>
         THEN Collapse(Tail(segs),
                       IF stack = << >> THEN stack ELSE SubSeq(stack, 1, Len(stack) - 1))
         ELSE Collapse(Tail(segs), Append(stack, sg))

RECURSIVE JoinRooted(_)
JoinRooted(stack) ==
    IF stack = << >> THEN << >>
    ELSE <<"/">> \o Head(stack) \o JoinRooted(Tail(stack))

NormalForm(s) ==
    LET stack == Collapse(Segments(s, << >>, << >>), << >>) IN
    IF stack = << >> THEN <<"/">> ELSE JoinRooted(stack)

\* s without its leading and trailing blanks.
AllBlank(s) == \A i \in 1..Len(s) : s[i] = " "

Trimmed(s) ==
    LET first == CHOOSE i \in 1..Len(s) : s[i] # " " /\ \A j \in 1..(i - 1) : s[j] = " "
        last  == CHOOSE i \in 1..Len(s) : s[i] # " " /\ \A j \in (i + 1)..Len(s) : s[j] = " "
    IN  SubSeq(s, first, last)

\* C10: sanitizeFilePath fails with EmptyPath on an empty or all-blank input;
\* otherwise it normalizes "/" + trimmed input, fails with PathResolvesToRoot
\* when that is "/", and else returns the normalized root-prefixed path.
C10_SanitizerContract ==
    \A r \in sanOut :
        IF AllBlank(sanIn)
        THEN ~r.ok /\ r.err.kind = "EmptyPath"
        ELSE LET nf == NormalForm(<<"/">> \o Trimmed(sanIn)) IN
             IF nf = <<"/">>
             THEN ~r.ok /\ r.err.kind = "PathResolvesToRoot"
             ELSE r.ok /\ r.path = nf /\ r.err = NoErr

\* A path with a leading "..", a doubled separator and a blank has been
\* normalized to "/foo.js".
C10_Witness ==
    /\ sanIn = <<" ", ".", ".", "/", "/", "foo.js">>
    /\ sanOut = {[ok |-> TRUE, path |-> <<"/", "foo.js">>, err |-> NoErr]}


----------------------------------------------------------------------------
(* Properties of Resolve *)

Done(c) == pc[c] = "done"

Succeeded(c) == Done(c) /\ ret[c].err = NoErr

Failed(c) == Done(c) /\ ret[c].err # NoErr

\* The listing the data API serves for the package version of a result.
ListingOf(r) == cdn[VersionKey(r.packageName, r.version)]

HasListing(r) == VersionKey(r.packageName, r.version) \in DOMAIN cdn

\* C1: a successful Resolve returns integrity "sha256-" + the hash the
\* listing of packageName@version reports for the returned file, never the
\* raw hash; in the end-to-end scenario it is "sha256-HASH_INDEX".
C1_IntegrityIsPrefixedHash ==
    \A c \in Callers :
        Succeeded(c) =>
            LET r == ret[c].pkg IN
            /\ HasListing(r)
            /\ \E i \in 1..Len(ListingOf(r)) :
                 /\ ListingOf(r)[i].name = r.file
                 /\ r.integrity = <<"sha256-">> \o ListingOf(r)[i].hash
                 /\ r.integrity # ListingOf(r)[i].hash
            /\ (pkg[c] = ScenarioSpec /\ r.file = <<"/", "index.js">>)
                   => r.integrity = <<"sha256-", "HASH_INDEX">>

\* The end-to-end scenario has been resolved.
C1_Witness ==
    /\ Succeeded(SeqCaller)
    /\ pkg[SeqCaller] = ScenarioSpec
    /\ registry[Foo] = FieldDoc(FJ, EmptyStr, EmptyStr, EmptyStr)
    /\ ret[SeqCaller].pkg.version = V1
    /\ ret[SeqCaller].pkg.file = <<"/", "index.js">>
    /\ ret[SeqCaller].pkg.integrity = <<"sha256-", "HASH_INDEX">>

\* C2: as the resolver tests assert, a successful Resolve returns Integrity
\* exactly equal to the hash H the listing reports for the resolved file.
C2_IntegrityIsListedHash ==
    \A c \in Callers :
        Succeeded(c) =>
            LET r == ret[c].pkg IN
            \E i \in 1..Len(ListingOf(r)) :
                /\ ListingOf(r)[i].name = r.file
                /\ r.integrity = ListingOf(r)[i].hash

\* The first non-empty string of a sequence of strings.
FirstNonEmpty(fields) ==
    fields[CHOOSE i \in 1..Len(fields) :
               fields[i] # EmptyStr /\ \A j \in 1..(i - 1) : fields[j] = EmptyStr]

FallbackFields(pv) == <<pv.jsdelivr, pv.unpkg, pv.module, pv.main>>

AllEmpty(fields) == \A i \in 1..Len(fields) : fields[i] = EmptyStr

\* C3: with no explicit file, the file chosen from versions[latest] is the
\* first non-empty of jsdelivr, unpkg, module, main (root-prefixed), for
\* every combination of present and absent fields; only module and main
\* present gives the module field; none present gives NoDefaultFile.
C3_FallbackOrder ==
    \A c \in Callers :
        /\ (pc[c] = "sanitize" /\ pkg[c].file = EmptyStr) =>
              \E meta \in metaData[c] :
                  LET fields == FallbackFields(meta.versions[meta.distTags[Latest]]) IN
                  /\ meta = registry[resolved[c].packageName]
                  /\ resolved[c].version = meta.distTags[Latest]
                  /\ ~AllEmpty(fields)
                  /\ resolved[c].file = <<"/">> \o FirstNonEmpty(fields)
                  /\ (fields[1] = EmptyStr /\ fields[2] = EmptyStr /\ fields[3] # EmptyStr)
                        => resolved[c].file = <<"/">> \o meta.versions[resolved[c].version].module
        /\ (Failed(c) /\ ret[c].err.kind = "NoDefaultFile") =>
              /\ pkg[c].file = EmptyStr
              /\ LET meta == registry[EffectivePackageName(pkg[c])] IN
                 AllEmpty(FallbackFields(meta.versions[meta.distTags[Latest]]))

\* A version exposing only module and main has had its module field chosen.
C3_Witness ==
    /\ pc[SeqCaller] = "sanitize"
    /\ pkg[SeqCaller].file = EmptyStr
    /\ registry[Foo] = FieldDoc(EmptyStr, EmptyStr, FM, FN)
    /\ resolved[SeqCaller].file = <<"/", "esm.js">>

\* Whether versions[latest] of the package of caller c has a jsdelivr field.
HasJSDelivr(c) ==
    LET p == EffectivePackageName(pkg[c]) IN
    /\ p \in DOMAIN registry
    /\ ~registry[p].distTagsNil
    /\ HasKey(registry[p].distTags, Latest)
    /\ HasKey(registry[p].versions, registry[p].distTags[Latest])
    /\ registry[p].versions[registry[p].distTags[Latest]].jsdelivr # EmptyStr

JSDelivrOf(c) ==
    LET meta == registry[EffectivePackageName(pkg[c])] IN
    meta.versions[meta.distTags[Latest]].jsdelivr

\* C4 as stated: with no explicit file and a non-empty jsdelivr field, a
\* successful Resolve returns file = "/" + that field.
C4_FileIsPrefixedField ==
    \A c \in Callers :
        (Succeeded(c) /\ pkg[c].file = EmptyStr /\ HasJSDelivr(c)) =>
            ret[c].pkg.file = <<"/">> \o JSDelivrOf(c)

\* C4 amended: with no explicit file and a non-empty jsdelivr field, a
\* successful Resolve returns the lexically normalized "/" + that field,
\* whatever the unpkg, module and main fields hold; it is "/" + the field
\* when the field is already a clean relative path.
C4_FileIsNormalizedField ==
    \A c \in Callers :
        (Succeeded(c) /\ pkg[c].file = EmptyStr /\ HasJSDelivr(c)) =>
            /\ ret[c].pkg.file = NormalForm(<<"/">> \o Trimmed(<<"/">> \o JSDelivrOf(c)))
            /\ JSDelivrOf(c) = FJ => ret[c].pkg.file = <<"/">> \o FJ

\* A jsdelivr field "./index.js" has been resolved to "/index.js" while the
\* other three fields were set.
C4_Witness ==
    /\ Succeeded(SeqCaller)
    /\ pkg[SeqCaller].file = EmptyStr
    /\ registry[Foo] = FieldDoc(<<".", "/", "index.js">>, FU, FM, FN)
    /\ EffectivePackageName(pkg[SeqCaller]) = Foo
    /\ ret[SeqCaller].pkg.file = <<"/", "index.js">>


\* C5: once a Resolve has succeeded for a package name, a later Resolve for
\* the same package name (whatever its name or file) issues no metadata and
\* no listing request; two such calls issue one request of each kind in all.
C5_WarmCallIssuesNoRequest ==
    \A c \in Callers :
        (pc[c] # "idle" /\ snap[c].warm) =>
            /\ npmCalls = snap[c].npm
            /\ cdnCalls = snap[c].cdn
            /\ calls = 2 => (npmCalls = 1 /\ cdnCalls = 1)

\* A second Resolve for an already resolved package has succeeded under
\* another name, with one request of each kind made in all.
C5_Witness ==
    /\ calls = 2
    /\ Succeeded(SeqCaller)
    /\ snap[SeqCaller].warm
    /\ pkg[SeqCaller] = PackageSpec(Bar, <<"other.js">>, Foo)
    /\ npmCalls = 1
    /\ cdnCalls = 1

\* The metadata of the call's package was not cached when the call started.
Cold(c) == ~HasKey(snap[c].metaCache, EffectivePackageName(pkg[c]))

CanceledCold(c) == pc[c] # "idle" /\ ctx[c] = Canceled /\ Cold(c)

\* C6 as stated: a Resolve with an already canceled token on a cold cache
\* fails without any request being observed by the registry or by the
\* transport.
C6_NoRequestObserved ==
    \A c \in Callers :
        CanceledCold(c) =>
            /\ npmCalls = snap[c].npm
            /\ npmServed = snap[c].npmServed
            /\ Done(c) => Failed(c)

\* C6 amended: such a Resolve fails; it hands exactly one metadata request,
\* carrying the canceled context, to the transport, which fails it without
\* sending: no request reaches the registry or the data API, and no listing
\* request is made.
C6_CanceledRequestStopsAtTransport ==
    \A c \in Callers :
        CanceledCold(c) =>
            /\ npmServed = snap[c].npmServed
            /\ cdnServed = snap[c].cdnServed
            /\ cdnCalls = snap[c].cdn
            /\ npmCalls <= snap[c].npm + 1
            /\ Done(c) => (Failed(c) /\ npmCalls = snap[c].npm + 1)

\* A canceled first call has returned after the transport saw its request.
C6_Witness ==
    /\ Done(SeqCaller)
    /\ CanceledCold(SeqCaller)
    /\ calls = 1
    /\ npmCalls = 1
    /\ npmServed = 0

\* C7: a Resolve with an already canceled token on a cold cache returns an
\* error that matches context.Canceled, returns no package, stores nothing
\* in either cache and issues no listing request.
C7_CanceledErrorAndNothingStored ==
    \A c \in Callers :
        CanceledCold(c) =>
            /\ metaCache = snap[c].metaCache
            /\ cdnCache = snap[c].cdnCache
            /\ cdnCalls = snap[c].cdn
            /\ Done(c) => /\ "context.Canceled" \in ret[c].err.is
                          /\ ret[c].pkg = ZeroPackage

\* A canceled call has returned the cancellation error with empty caches.
C7_Witness ==
    /\ Done(SeqCaller)
    /\ CanceledCold(SeqCaller)
    /\ "context.Canceled" \in ret[SeqCaller].err.is
    /\ metaCache = EmptyMap
    /\ cdnCache = EmptyMap

\* C8: when the sanitized explicit file is not a key of the listing, Resolve
\* fails with FileNotOnCDN and the error text contains the sanitized path
\* and the spec's name (not its packageName).
C8_MissingFileFails ==
    [][\A c \in Callers :
          ( /\ pc[c] = "link"
            /\ pc'[c] # "link"
            /\ pkg[c].file # EmptyStr
            /\ \A hs \in hashes[c] : ~HasKey(hs, resolved[c].file) )
          => /\ pc'[c] = "done"
             /\ ret'[c].pkg = ZeroPackage
             /\ ret'[c].err.kind = "FileNotOnCDN"
             /\ resolved[c].file = NormalForm(<<"/">> \o Trimmed(pkg[c].file))
             /\ Contains(ret'[c].err.text, resolved[c].file)
             /\ Contains(ret'[c].err.text, pkg[c].name)
             /\ pkg[c].name # resolved[c].packageName
                   => ~Contains(ret'[c].err.text, resolved[c].packageName)
    ]_vars

\* An explicit file missing from the listing has been reported by path and
\* by snippet name.
C8_Witness ==
    /\ Failed(SeqCaller)
    /\ pkg[SeqCaller] = PackageSpec(<<"snippet1">>, <<"missing.js">>, Foo)
    /\ ret[SeqCaller].err.kind = "FileNotOnCDN"
    /\ ret[SeqCaller].err.text =
          <<"file ", "/", "missing.js", " for snippet ", "snippet1", " not found on CDN">>

\* dist-tags absent, without "latest", or with an empty "latest".
NoUsableLatest(meta) ==
    \/ meta.distTagsNil
    \/ Latest \notin DOMAIN meta.distTags
    \/ meta.distTags[Latest] = EmptyStr

\* C9: metadata whose dist-tags are absent, lack "latest" or map it to ""
\* makes Resolve fail with NoLatestVersion, and the call issues no listing
\* request.
C9_NoLatestVersion ==
    [][\A c \in Callers :
          ( /\ pc[c] = "select"
            /\ pc'[c] # "select"
            /\ \E meta \in metaData[c] : NoUsableLatest(meta) )
          => /\ pc'[c] = "done"
             /\ ret'[c].pkg = ZeroPackage
             /\ ret'[c].err.kind = "NoLatestVersion"
             /\ cdnCalls' = snap[c].cdn
             /\ cdnServed' = snap[c].cdnServed
    ]_vars

\* A package whose "latest" tag is empty has been refused before any listing
\* request.
C9_Witness ==
    /\ Failed(SeqCaller)
    /\ registry[Foo].distTags = OneTag(Latest, EmptyStr)
    /\ ret[SeqCaller].err.kind = "NoLatestVersion"
    /\ cdnCalls = 0

\* A response that came back with a status outside 200..299.
NonSuccess(r) == r.err = NoErr /\ r.status.code \notin 200..299

\* C11: a response with a non-2xx status, whatever the code, makes Resolve
\* fail and return no package: with MetadataUnavailable when it answers the
\* metadata request and with ListingUnavailable when it answers the listing
\* request; the error text reports the status (a 404 gives a text containing
\* "404").
C11_NonSuccessStatusFails ==
    \A c \in Callers :
        \A r \in res[c] :
            NonSuccess(r) =>
                /\ Failed(c)
                /\ ret[c].pkg = ZeroPackage
                /\ ret[c].err.kind = (IF r.step = "meta" THEN "MetadataUnavailable"
                                                         ELSE "ListingUnavailable")
                /\ Contains(ret[c].err.text, r.status.text)
                /\ r.status.code = 404 => Contains(ret[c].err.text, <<"404">>)

\* The registry answered 404 for a package it does not know and the call
\* failed with a text naming the status.
C11_Witness ==
    /\ Failed(SeqCaller)
    /\ \E r \in res[SeqCaller] :
         r.step = "meta" /\ NonSuccess(r) /\ r.status.code = 404
    /\ ret[SeqCaller].err.kind = "MetadataUnavailable"
    /\ Contains(ret[SeqCaller].err.text, <<"404", " ", "Not Found">>)

\* The registry identity of the call of caller c.
Identity(c) == IF pkg[c].packageName = EmptyStr THEN pkg[c].name ELSE pkg[c].packageName

\* The call of caller c failed while fetching (step is "meta" or "cdn").
FailedInFetch(c, step) ==
    /\ Failed(c)
    /\ \E r \in res[c] : r.step = step
    /\ ret[c].err.kind \in {"TransportError", "DecodeError", "MetadataUnavailable",
                            "ListingUnavailable"}

\* Every entry of map old is in map new, unchanged.
Keeps(new, old) == \A k \in DOMAIN old : k \in DOMAIN new /\ new[k] = old[k]

\* C12 as stated: a Resolve call that returns any failure leaves the metadata
\* cache and the listing cache exactly as they were when the call started.
C12_FailureLeavesCaches ==
    \A c \in Callers :
        Failed(c) => (metaCache = snap[c].metaCache /\ cdnCache = snap[c].cdnCache)

\* C12 amended: a Resolve call that returns a failure changes no entry the
\* caches held when it started and adds nothing but what its own successful
\* fetches stored before the failing step: the metadata of its package, when
\* the failure is not a failed metadata fetch, and the listing of its
\* package version, when the failure is FileNotOnCDN.
C12_FailureKeepsEarlierEntries ==
    \A c \in Callers :
        Failed(c) =>
            /\ Keeps(metaCache, snap[c].metaCache)
            /\ Keeps(cdnCache, snap[c].cdnCache)
            /\ DOMAIN metaCache \subseteq DOMAIN snap[c].metaCache \cup {Identity(c)}
            /\ metaCache # snap[c].metaCache =>
                  /\ ~FailedInFetch(c, "meta")
                  /\ metaCache[Identity(c)] = registry[Identity(c)]
            /\ FailedInFetch(c, "meta") => cdnCache = snap[c].cdnCache
            /\ cdnCache # snap[c].cdnCache =>
                  /\ ret[c].err.kind = "FileNotOnCDN"
                  /\ LET k == VersionKey(Identity(c),
                                         registry[Identity(c)].distTags[Latest]) IN
                     /\ DOMAIN cdnCache = DOMAIN snap[c].cdnCache \cup {k}
                     /\ cdnCache[k] = BuildHashes(cdn[k], EmptyMap)

\* After a successful call for bar, a call for foo failed with FileNotOnCDN:
\* the entries of bar are intact and foo's metadata and listing were stored.
C12_Witness ==
    /\ calls = 2
    /\ Failed(SeqCaller)
    /\ ret[SeqCaller].err.kind = "FileNotOnCDN"
    /\ DOMAIN snap[SeqCaller].metaCache = {Bar}
    /\ DOMAIN metaCache = {Foo, Bar}
    /\ DOMAIN snap[SeqCaller].cdnCache = {VersionKey(Bar, V2)}
    /\ DOMAIN cdnCache = {VersionKey(Foo, V1), VersionKey(Bar, V2)}

\* A response that is a failed fetch: a transport error, a status other than
\* success, or a body that does not decode.
Broken(r) == r.err # NoErr \/ r.status.code # 200 \/ ~r.decodes

\* The call of caller c ended with its fetch of the given step failing.
FetchBroke(c, step) == Done(c) /\ \E r \in res[c] : r.step = step /\ Broken(r)

\* The key of the listing cache the call of caller c needs.
ListingKey(c) == VersionKey(Identity(c), registry[Identity(c)].distTags[Latest])

\* The positions of a call after its metadata step.
AfterMeta == {"select", "sanitize", "cdnLock", "cdnRead", "cdnDo", "cdnWait",
              "cdnStoreLock", "cdnStore", "link"}

\* The positions of a call after it asked for the listing.
AfterCdnDo == {"cdnWait", "cdnStoreLock", "cdnStore", "link"}

\* C13: a metadata or listing fetch that fails (transport error, non-success
\* status or undecodable body) fails the call, stores nothing under its key
\* and changes no entry of either cache; the next Resolve that needs the key
\* finds it absent and issues a new request for it.
C13_FailedFetchNotCached ==
    \A c \in Callers :
        /\ FetchBroke(c, "meta") =>
              /\ Failed(c)
              /\ Identity(c) \notin DOMAIN metaCache
              /\ metaCache = snap[c].metaCache
              /\ cdnCache = snap[c].cdnCache
        /\ FetchBroke(c, "cdn") =>
              /\ Failed(c)
              /\ ListingKey(c) \notin DOMAIN cdnCache
              /\ cdnCache = snap[c].cdnCache
              /\ Keeps(metaCache, snap[c].metaCache)
        /\ snap[c].retryMeta =>
              /\ Identity(c) \notin DOMAIN snap[c].metaCache
              /\ pc[c] \in AfterMeta \cup {"metaWait", "metaStoreLock", "metaStore", "done"}
                    => npmCalls = snap[c].npm + 1
        /\ snap[c].retryCdn =>
              /\ ListingKey(c) \notin DOMAIN snap[c].cdnCache
              /\ pc[c] \in AfterCdnDo => cdnCalls = snap[c].cdn + 1
              /\ Done(c) =>
                    \/ cdnCalls = snap[c].cdn + 1
                    \/ ret[c].err.kind \in {"VersionAssetsMissing", "NoDefaultFile",
                                            "EmptyPath", "PathResolvesToRoot"}

\* A call whose metadata fetch failed was followed by a call for the same
\* package, which made a second metadata request and succeeded.
C13_Witness ==
    /\ calls = 2
    /\ snap[SeqCaller].retryMeta
    /\ Succeeded(SeqCaller)
    /\ snap[SeqCaller].npm = 1
    /\ npmCalls = 2

\* The kinds of failure of the error taxonomy.
Taxonomy == {"TransportError", "MetadataUnavailable", "ListingUnavailable",
             "NoLatestVersion", "VersionAssetsMissing", "NoDefaultFile",
             "EmptyPath", "PathResolvesToRoot", "FileNotOnCDN"}

\* C14: every failure Resolve returns, of every kind of the taxonomy, carries
\* the package name of the spec being resolved (its name or its packageName
\* appears in the error), and comes with no package.
C14_FailureCarriesPackageName ==
    \A c \in Callers :
        (Failed(c) /\ ret[c].err.kind \in Taxonomy) =>
            /\ ret[c].pkg = ZeroPackage
            /\ \/ Contains(ret[c].err.text, pkg[c].name)
               \/ Contains(ret[c].err.text, Identity(c))

\* C15: a successful Resolve returns version equal to the "latest" dist-tag
\* of the metadata of its package, and src equal to the CDN asset base URL +
\* "/" + packageName + "@" + version + file, file being the returned
\* sanitized root-prefixed path; src holds packageName, not the display name.
C15_VersionAndSrc ==
    \A c \in Callers :
        Succeeded(c) =>
            LET r == ret[c].pkg IN
            /\ r.packageName = Identity(c)
            /\ r.version = registry[r.packageName].distTags[Latest]
            /\ r.file = NormalForm(r.file)
            /\ Head(r.file) = "/"
            /\ r.src = <<"https://cdn.jsdelivr.net/npm", "/">> \o r.packageName
                          \o <<"@">> \o r.version \o r.file
            /\ pkg[c].name # r.packageName => ~Contains(r.src, pkg[c].name)

\* Package foo shown as "bar" with file other.js has been resolved to
\* https://cdn.jsdelivr.net/npm/foo@1.2.3/other.js.
C15_Witness ==
    /\ Succeeded(SeqCaller)
    /\ pkg[SeqCaller] = PackageSpec(Bar, <<"other.js">>, Foo)
    /\ ret[SeqCaller].pkg.version = V1
    /\ ret[SeqCaller].pkg.src =
          <<"https://cdn.jsdelivr.net/npm", "/", "foo", "@", "1.2.3", "/", "other.js">>

\* The failures of a fetch itself.
FetchKinds == {"TransportError", "MetadataUnavailable", "ListingUnavailable",
               "DecodeError"}

\* The explicit file of the call of caller c is usable and the listing of
\* the latest version of its package has it.
ExplicitFileListed(c) ==
    /\ ~AllBlank(pkg[c].file)
    /\ Identity(c) \in DOMAIN registry
    /\ ~NoUsableLatest(registry[Identity(c)])
    /\ ListingKey(c) \in DOMAIN cdn
    /\ \E i \in 1..Len(cdn[ListingKey(c)]) :
         cdn[ListingKey(c)][i].name = NormalForm(<<"/">> \o Trimmed(pkg[c].file))

\* C16: with a non-empty spec.file, Resolve uses its sanitized form as the
\* file and does not read the versions map: unless a fetch fails it succeeds
\* whenever the listing has that path, also when versions has no entry for
\* the latest version or no fallback field is set, and it never fails with
\* VersionAssetsMissing or NoDefaultFile.
C16_ExplicitFileWins ==
    \A c \in Callers :
        (Done(c) /\ pkg[c].file # EmptyStr) =>
            /\ ret[c].err.kind \notin {"VersionAssetsMissing", "NoDefaultFile"}
            /\ Succeeded(c) =>
                  ret[c].pkg.file = NormalForm(<<"/">> \o Trimmed(pkg[c].file))
            /\ ExplicitFileListed(c) =>
                  (Succeeded(c) \/ ret[c].err.kind \in FetchKinds)
            /\ ret[c].err.kind = "FileNotOnCDN" => ~ExplicitFileListed(c)

\* An explicit other.js has been resolved for a package whose versions map
\* has no entry for its latest version.
C16_Witness ==
    /\ Succeeded(SeqCaller)
    /\ pkg[SeqCaller] = PackageSpec(<<"snippet1">>, <<"other.js">>, Foo)
    /\ registry[Foo].distTags = OneTag(Latest, V1)
    /\ V1 \notin DOMAIN registry[Foo].versions
    /\ ret[SeqCaller].pkg.file = <<"/", "other.js">>

\* The call of caller c had no explicit file and got (from the cache or from
\* a fetch) metadata with a usable "latest" tag.
DefaultFileCase(c) ==
    /\ Done(c)
    /\ pkg[c].file = EmptyStr
    /\ ~FetchBroke(c, "meta")
    /\ Identity(c) \in DOMAIN registry
    /\ ~NoUsableLatest(registry[Identity(c)])

\* C17: with no explicit file, a versions map without an entry for the
\* resolved version makes Resolve fail with VersionAssetsMissing, and an
\* entry whose jsdelivr, unpkg, module and main fields are all empty makes
\* it fail with NoDefaultFile, the error naming the package and the version;
\* in both cases the call issues no listing request.
C17_NoEntryOrNoField ==
    \A c \in Callers :
        DefaultFileCase(c) =>
            LET meta == registry[Identity(c)]
                v    == meta.distTags[Latest]
            IN
            /\ v \notin DOMAIN meta.versions =>
                  /\ ret[c].err.kind = "VersionAssetsMissing"
                  /\ ret[c].pkg = ZeroPackage
                  /\ cdnCalls = snap[c].cdn
                  /\ cdnServed = snap[c].cdnServed
            /\ (v \in DOMAIN meta.versions /\ AllEmpty(FallbackFields(meta.versions[v]))) =>
                  /\ ret[c].err.kind = "NoDefaultFile"
                  /\ ret[c].pkg = ZeroPackage
                  /\ Contains(ret[c].err.text, Identity(c))
                  /\ Contains(ret[c].err.text, v)
                  /\ cdnCalls = snap[c].cdn
                  /\ cdnServed = snap[c].cdnServed

\* foo@1.2.3 with none of the four fields set has been refused by package
\* and version before any listing request.
C17_Witness ==
    /\ Failed(SeqCaller)
    /\ pkg[SeqCaller] = ScenarioSpec
    /\ registry[Foo] = FieldDoc(EmptyStr, EmptyStr, EmptyStr, EmptyStr)
    /\ ret[SeqCaller].err.text =
          <<"no default file import found for ", "foo", " version ", "1.2.3",
            ". Add it explicitly to the CDN data file">>
    /\ cdnCalls = 0

\* The keys map new has and map old has not.
NewKeys(new, old) == DOMAIN new \ DOMAIN old

\* C18: the registry identity of a call is spec.name when spec.packageName
\* is empty and spec.packageName otherwise: the metadata request, the
\* listing request, the keys the call adds to the two caches and src are
\* built from it, and the returned packageName is it; when packageName is
\* set, none of them holds the name; the returned name is always spec.name.
C18_IdentityDefaultsToName ==
    \A c \in Callers :
        pc[c] # "idle" =>
            LET id == IF pkg[c].packageName = EmptyStr THEN pkg[c].name
                                                       ELSE pkg[c].packageName
                differ == pkg[c].packageName # EmptyStr /\ pkg[c].name # pkg[c].packageName
            IN
            /\ \A u \in req[c] :
                 /\ pc[c] = "metaWait" => u = <<"https://registry.npmjs.org", "/">> \o id
                 /\ pc[c] = "cdnWait" =>
                       \E v \in {V1, V2} :
                           u = <<"https://data.jsdelivr.com/v1/package/npm", "/">> \o id
                                   \o <<"@">> \o v \o <<"/", "flat">>
                 /\ differ => ~Contains(u, pkg[c].name)
            /\ NewKeys(metaCache, snap[c].metaCache) \subseteq {id}
            /\ NewKeys(cdnCache, snap[c].cdnCache) \subseteq {id \o <<"@">> \o v : v \in {V1, V2}}
            /\ Succeeded(c) =>
                 /\ ret[c].pkg.packageName = id
                 /\ ret[c].pkg.name = pkg[c].name
                 /\ SubSeq(ret[c].pkg.src, 1, 2 + Len(id) + 1) =
                       <<"https://cdn.jsdelivr.net/npm", "/">> \o id \o <<"@">>
                 /\ differ => ~Contains(ret[c].pkg.src, pkg[c].name)
                 /\ id \in DOMAIN metaCache
                 /\ id \o <<"@">> \o ret[c].pkg.version \in DOMAIN cdnCache

\* A spec with name "bar" and no packageName has been resolved as package
\* bar: requests, cache keys and src carry "bar".
C18_Witness ==
    /\ Succeeded(SeqCaller)
    /\ calls = 1
    /\ pkg[SeqCaller] = PackageSpec(Bar, EmptyStr, EmptyStr)
    /\ ret[SeqCaller].pkg.packageName = Bar
    /\ ret[SeqCaller].pkg.name = Bar
    /\ DOMAIN metaCache = {Bar}
    /\ DOMAIN cdnCache = {<<"bar", "@", "2.0.0">>}
    /\ ret[SeqCaller].pkg.src =
          <<"https://cdn.jsdelivr.net/npm", "/", "bar", "@", "2.0.0", "/", "main.js">>

----------------------------------------------------------------------------
(* Properties of concurrent Resolve calls *)

\* The positions at which a call reads or writes one of the cache maps.
CacheAccess == {"metaRead", "metaStore", "cdnRead", "cdnStore"}

\* The positions at which a call's request is with the transport.
InFlight == {"metaWait", "cdnWait"}

\* C19: under every interleaving of concurrent Resolve calls, a call reads
\* or writes a cache map only while it holds the lock, a cache map changes
\* only in a step of the lock's holder, at most one call is at a cache
\* access at any time, and no call holds the lock while its own request is
\* in flight.
C19_CacheAccessUnderLock ==
    [][ /\ \A c \in Callers :
             /\ pc[c] \in CacheAccess => mu = c
             /\ pc'[c] \in CacheAccess => mu' = c
             /\ (pc[c] \in InFlight \/ req[c] # {}) => mu # c
             /\ (pc'[c] \in InFlight \/ req'[c] # {}) => mu' # c
        /\ \A c, d \in Callers :
             (pc'[c] \in CacheAccess /\ pc'[d] \in CacheAccess) => c = d
        /\ (metaCache' # metaCache \/ cdnCache' # cdnCache) =>
             /\ mu \in Callers
             /\ pc[mu] \in {"metaStore", "cdnStore"}
             /\ pc'[mu] # pc[mu]
             /\ mu' = NoCaller
      ]_vars

\* Two calls have their metadata requests in flight at the same time, and
\* nobody holds the lock.
C19_Witness ==
    /\ pc["c1"] = "metaWait"
    /\ pc["c2"] = "metaWait"
    /\ req["c1"] # {}
    /\ req["c2"] # {}
    /\ mu = NoCaller

\* Both callers have finished a call for the same spec.
BothDoneSame == Done("c1") /\ Done("c2") /\ pkg["c1"] = pkg["c2"]

\* C20: when two Resolve calls for the same uncached package run
\* concurrently, both may issue a metadata and a listing request; in every
\* interleaving the calls started have issued at most one request of each
\* kind each, a store replaces what is under the key, two successful calls
\* for the same spec return the same ResolvedPackage, and when both have
\* succeeded each cache holds one entry for the package, equal to what
\* upstream serves.
C20_DuplicateFetchIsIdempotent ==
    /\ npmCalls <= calls
    /\ cdnCalls <= calls
    /\ \A p \in DOMAIN metaCache : metaCache[p] = registry[p]
    /\ \A k \in DOMAIN cdnCache : k \in DOMAIN cdn /\ cdnCache[k] = BuildHashes(cdn[k], EmptyMap)
    /\ (BothDoneSame /\ Succeeded("c1") /\ Succeeded("c2")) =>
          /\ ret["c1"].pkg = ret["c2"].pkg
          /\ calls = 2 =>
                /\ DOMAIN metaCache = {Identity("c1")}
                /\ DOMAIN cdnCache = {ListingKey("c1")}

\* Two concurrent first calls for foo have both fetched the metadata and
\* the listing, both succeeded, and each cache holds the one entry of foo.
C20_Witness ==
    /\ BothDoneSame
    /\ pkg["c1"] = ScenarioSpec
    /\ Succeeded("c1")
    /\ Succeeded("c2")
    /\ calls = 2
    /\ npmCalls = 2
    /\ cdnCalls = 2
    /\ DOMAIN metaCache = {Foo}
    /\ DOMAIN cdnCache = {VersionKey(Foo, V1)}

----------------------------------------------------------------------------
(* Properties of the order of the steps of one call *)

\* The failures of the steps that come before the listing step.
EarlierKinds == {"MetadataUnavailable", "NoLatestVersion", "VersionAssetsMissing",
                 "NoDefaultFile", "EmptyPath", "PathResolvesToRoot"}

\* C21: a Resolve call hands at most one metadata request and at most one
\* listing request to the transport; when it has made its listing request
\* the metadata step, the version and file selection and the sanitization
\* of that call have succeeded; a call that failed in one of these earlier
\* steps returns that step's error and has made no listing request.
C21_OneRequestEachInOrder ==
    \A c \in Callers :
        pc[c] # "idle" =>
            /\ npmCalls \in {snap[c].npm, snap[c].npm + 1}
            /\ cdnCalls \in {snap[c].cdn, snap[c].cdn + 1}
            /\ (cdnCalls = snap[c].cdn + 1 /\ ~Done(c)) =>
                  /\ pc[c] \in AfterCdnDo
                  /\ \E meta \in metaData[c] :
                        /\ ~NoUsableLatest(meta)
                        /\ resolved[c].version = meta.distTags[Latest]
                  /\ resolved[c].file # EmptyStr
                  /\ SanitizeFilePath(resolved[c].file) =
                        [ok |-> TRUE, path |-> resolved[c].file, err |-> NoErr]
            /\ (cdnCalls = snap[c].cdn + 1 /\ Done(c)) =>
                  /\ \E r \in res[c] : r.step = "cdn"
                  /\ ret[c].err.kind \in {"nil", "FileNotOnCDN", "TransportError",
                                          "ListingUnavailable", "DecodeError"}
            /\ (Failed(c) /\ (ret[c].err.kind \in EarlierKinds \/ FetchBroke(c, "meta"))) =>
                  /\ cdnCalls = snap[c].cdn
                  /\ cdnServed = snap[c].cdnServed
                  /\ FetchBroke(c, "meta") =>
                        ret[c].err.kind \in {"TransportError", "MetadataUnavailable",
                                             "DecodeError"}

\* A first call has succeeded after exactly one request of each kind.
C21_Witness ==
    /\ calls = 1
    /\ Succeeded(SeqCaller)
    /\ snap[SeqCaller].npm = 0
    /\ snap[SeqCaller].cdn = 0
    /\ npmCalls = 1
    /\ cdnCalls = 1
    /\ npmServed = 1
    /\ cdnServed = 1

\* C22: under every sequence and interleaving of Resolve calls, a key of the
\* metadata cache or of the listing cache stays a key in every later state;
\* a key is added only by a store, the metadata key being the packageName
\* of the storing call and the listing key its packageName + "@" + version.
C22_EntriesNeverLeave ==
    [][ /\ DOMAIN metaCache \subseteq DOMAIN metaCache'
        /\ DOMAIN cdnCache \subseteq DOMAIN cdnCache'
        /\ \A k \in DOMAIN metaCache' \ DOMAIN metaCache :
             \E c \in Callers :
                 /\ pc[c] = "metaStore"
                 /\ pc'[c] = "select"
                 /\ k = Identity(c)
        /\ \A k \in DOMAIN cdnCache' \ DOMAIN cdnCache :
             \E c \in Callers :
                 /\ pc[c] = "cdnStore"
                 /\ pc'[c] = "link"
                 /\ k = Identity(c) \o <<"@">> \o registry[Identity(c)].distTags[Latest]
      ]_vars

\* Both callers have finished, the second call for another package than the
\* first, and the caches hold the entries of both packages.
C22_Witness ==
    /\ calls = 2
    /\ Done("c1")
    /\ Done("c2")
    /\ DOMAIN metaCache = {Foo, Bar}
    /\ DOMAIN cdnCache = {<<"foo", "@", "1.2.3">>, <<"bar", "@", "2.0.0">>}

----------------------------------------------------------------------------
(* Printer.WriteFile and the command *)

\* errors.Is(e, target): target is e or is in the chain e wraps.
RECURSIVE ErrorsIs(_, _)
ErrorsIs(e, target) ==
    \/ e = target
    \/ /\ "wraps" \in DOMAIN e
       /\ \E i \in 1..Len(e.wraps) : ErrorsIs(e.wraps[i], target)

\* C23: in a dry run Printer.WriteFile runs the write callback, returns the
\* callback's error wrapped (and nil when the callback returns nil), and
\* leaves every file as it was; outside a dry run an error the callback
\* returns is returned wrapped in an error that errors.Is still matches with
\* the callback's error.
C23_DryRunWritesNothing ==
    [][ wrote' # wrote =>
          \A w \in wrote' :
            /\ dryRun =>
                 /\ w.ran
                 /\ fs' = fs
                 /\ w.cb.err = NoErr => w.err = NoErr
                 /\ w.cb.err # NoErr =>
                      /\ w.err # NoErr
                      /\ w.err # w.cb.err
                      /\ ErrorsIs(w.err, w.cb.err)
            /\ (~dryRun /\ w.ran /\ w.cb.err # NoErr) =>
                 /\ w.err # NoErr
                 /\ w.err # w.cb.err
                 /\ ErrorsIs(w.err, w.cb.err) ]_vars

\* A dry run whose callback failed on a path where an older output lies: the
\* old output is still there and the command's error matches the callback's.
C23_Witness ==
    /\ dryRun
    /\ cpc = "returned"
    /\ \E w \in wrote :
         /\ w.path = OutPath(ScenarioSpec.name)
         /\ w.cb.err = ExecError
         /\ ErrorsIs(w.err, ExecError)
         /\ Contains(w.err.text, <<"render dry-run ">> \o w.path)
    /\ HasKey(fs, OutPath(ScenarioSpec.name))
    /\ fs[OutPath(ScenarioSpec.name)] = OldContent
    /\ ErrorsIs(cmdRet, ExecError)

----------------------------------------------------------------------------
(* The listing cache key *)

\* The (packageName, version) pair caller c looks its listing up with.
PairOf(c) == [packageName |-> resolved[c].packageName, version |-> resolved[c].version]

KeyOf(p) == VersionKey(p.packageName, p.version)

HoldsAt(s) == Contains(s, <<"@">>)

\* Caller c takes its listing from the cache in this step.
ListingHit(c) == pc[c] = "cdnRead" /\ pc'[c] = "link"

\* C24 as claimed: a listing a Resolve takes from the listing cache was
\* stored for the same (packageName, version) pair, also when package names
\* or versions hold "@".
C24_HitIsOwnPair ==
    [][ \A c \in Callers :
          ListingHit(c) =>
            /\ HasKey(cdnFor, KeyOf(PairOf(c)))
            /\ cdnFor[KeyOf(PairOf(c))] = PairOf(c) ]_vars

\* C24 as the code has it: a listing a Resolve takes from the listing cache
\* was stored under packageName + "@" + version of the reading call, for the
\* same (packageName, version) pair unless the package name of one pair and
\* the version of the other both hold "@"; the two pairs then join to the
\* same key and to the same listing URL.
C24_HitIsOwnPairUnlessAt ==
    [][ \A c \in Callers :
          ListingHit(c) =>
            /\ HasKey(cdnFor, KeyOf(PairOf(c)))
            /\ LET own == PairOf(c)
                   other == cdnFor[KeyOf(PairOf(c))]
               IN  /\ KeyOf(other) = KeyOf(own)
                   /\ FlatURL(other.packageName, other.version)
                        = FlatURL(own.packageName, own.version)
                   /\ hashes'[c] = {cdnCache[KeyOf(own)]}
                   /\ other # own =>
                        \/ HoldsAt(other.packageName) /\ HoldsAt(own.version)
                        \/ HoldsAt(own.packageName) /\ HoldsAt(other.version) ]_vars

\* The call for a@b (latest c) succeeded from the listing the call for a
\* (latest b@c) had stored, with one listing request made in all; and a call
\* for @s/p read its own listing back.
C24_Witness ==
    /\ calls = 2
    /\ Succeeded(SeqCaller)
    /\ pkg[SeqCaller].packageName = PkgAB
    /\ ret[SeqCaller].pkg.version = VC
    /\ cdnCalls = 1
    /\ HasKey(cdnFor, VersionKey(PkgAB, VC))
    /\ cdnFor[VersionKey(PkgAB, VC)] = [packageName |-> PkgA, version |-> VBC]
    /\ HoldsAt(PkgAB)
    /\ HoldsAt(VBC)

----------------------------------------------------------------------------
(* Caching against always fetching *)

AlwaysFetchFails(err) == [pkg |-> ZeroPackage, err |-> err]

\* What a Resolver with no cache returns for spec when each of its requests
\* is answered by the upstream servers as they are: the steps of
\* ResolveWithContext with every document and listing fetched anew.
AlwaysFetch(spec) ==
    LET name == EffectivePackageName(spec)
        mr   == NewRequestWithContext(Background, MetaURL(name))
        m    == MetaOutcome(RegistryServe(MetaURL(name)), name)
    IN  IF mr # NoErr THEN AlwaysFetchFails(mr)
        ELSE IF ~m.ok THEN AlwaysFetchFails(m.err)
        ELSE
        LET meta == CHOOSE x \in m.body : TRUE
            sel  == ChooseFile(meta, spec, name)
        IN  IF ~sel.ok THEN AlwaysFetchFails(sel.err)
            ELSE
            LET sf == SanitizeFilePath(sel.file)
            IN  IF ~sf.ok THEN AlwaysFetchFails(sf.err)
                ELSE
                LET url == FlatURL(name, sel.version)
                    lr  == NewRequestWithContext(Background, url)
                    l   == CdnOutcome(CdnServe(url), url)
                IN  IF lr # NoErr THEN AlwaysFetchFails(lr)
                    ELSE IF ~l.ok THEN AlwaysFetchFails(l.err)
                    ELSE
                    LET hs   == CHOOSE h \in l.body : TRUE
                        link == IncludeLinkLookup(hs, name, sel.version, sf.path,
                                                  spec.name)
                    IN  IF ~link.ok THEN AlwaysFetchFails(link.err)
                        ELSE [pkg |-> [name |-> spec.name, file |-> sf.path,
                                       packageName |-> name,
                                       integrity |-> link.integrity,
                                       src |-> link.src, version |-> sel.version],
                              err |-> NoErr]

\* What the upstream servers answer to the request of the given step of
\* caller c's call.
UpstreamAnswer(c, step) ==
    IF step = "meta"
    THEN RegistryServe(MetaURL(Identity(c)))
    ELSE CdnServe(FlatURL(Identity(c), registry[Identity(c)].distTags[Latest]))

\* Every request of caller c's call was answered by the upstream servers as
\* they are, and its context was not canceled.  (A call ends at its first
\* failed request, so the last answer decides.)
AnsweredByUpstream(c) ==
    /\ ctx[c] = Background
    /\ \A r \in res[c] : r = Response(r.step, UpstreamAnswer(c, r.step))

\* C25: with unchanged upstream data, every call of a sequence of calls on
\* one caching Resolver returns what a Resolver that always fetches returns
\* for the same spec, the result when it succeeds and the failure when it
\* fails, whether the call was served from the caches or not.
C25_CachingEqualsAlwaysFetching ==
    \A c \in Callers :
        (Done(c) /\ AnsweredByUpstream(c)) => ret[c] = AlwaysFetch(pkg[c])

\* A second call, for another file of the package the first call resolved,
\* served from the caches alone, returned what always fetching returns.
C25_Witness ==
    /\ calls = 2
    /\ Succeeded(SeqCaller)
    /\ npmCalls = 1
    /\ cdnCalls = 1
    /\ snap[SeqCaller].npm = 1
    /\ snap[SeqCaller].cdn = 1
    /\ res[SeqCaller] = {}
    /\ pkg[SeqCaller].file = <<"other.js">>
    /\ ret[SeqCaller] = AlwaysFetch(pkg[SeqCaller])
    /\ ret[SeqCaller].pkg.integrity = <<"sha256-", "HASH_OTHER">>

----------------------------------------------------------------------------
(* Canceled calls on warm caches *)

\* The metadata of caller c's package was cached when its call started.
MetaWarm(c) == HasKey(snap[c].metaCache, Identity(c))

\* ... and so was the listing of the latest version that metadata names.
ListingWarm(c) ==
    /\ MetaWarm(c)
    /\ LatestVersion(snap[c].metaCache[Identity(c)], pkg[c].name).ok
    /\ HasKey(snap[c].cdnCache,
              VersionKey(Identity(c),
                         LatestVersion(snap[c].metaCache[Identity(c)],
                                       pkg[c].name).version))

\* The call of caller c returned the cancellation of its context.
ReturnedCanceled(c) == Failed(c) /\ "context.Canceled" \in ret[c].err.is

\* The call of caller c issued no request.
NoRequest(c) == npmCalls = snap[c].npm /\ cdnCalls = snap[c].cdn

\* The failures a call can return before it asks for the listing.
LocalKinds == {"NoLatestVersion", "VersionAssetsMissing", "NoDefaultFile",
               "EmptyPath", "PathResolvesToRoot"}

\* C26 as claimed: a call with a canceled context succeeds without a request
\* when metadata and listing are cached; a canceled call fails with the
\* cancellation only having issued a request; with cached metadata and no
\* cached listing it fails at the listing request.
C26_CanceledWarmSucceeds ==
    \A c \in Callers :
        (Done(c) /\ ctx[c] = Canceled) =>
            /\ ListingWarm(c) => (Succeeded(c) /\ NoRequest(c))
            /\ ReturnedCanceled(c) => ~NoRequest(c)
            /\ (MetaWarm(c) /\ ~ListingWarm(c)) =>
                 /\ ReturnedCanceled(c)
                 /\ \E r \in res[c] : r.step = "cdn"

\* C26 as the code has it: with metadata and listing cached, a call with a
\* canceled context issues no request and returns what the same call returns
\* with a live context (a success when its file is resolved from the cached
\* data, the same failure otherwise), never the cancellation; the
\* cancellation is returned only by a call that handed a request to the
\* transport, which sent nothing; with cached metadata and no cached listing
\* the call issues no metadata request and fails, either before the listing
\* step as it would with a live context, or at the listing request with the
\* cancellation.
C26_CanceledWarmAsLive ==
    \A c \in Callers :
        (Done(c) /\ ctx[c] = Canceled) =>
            /\ ListingWarm(c) =>
                 /\ NoRequest(c)
                 /\ ~ReturnedCanceled(c)
                 /\ ret[c] = AlwaysFetch(pkg[c])
                 /\ res[c] = {}
            /\ ReturnedCanceled(c) =>
                 /\ ~NoRequest(c)
                 /\ npmServed = snap[c].npmServed
                 /\ cdnServed = snap[c].cdnServed
            /\ (MetaWarm(c) /\ ~ListingWarm(c)) =>
                 /\ Failed(c)
                 /\ npmCalls = snap[c].npm
                 /\ \/ /\ ret[c].err.kind \in LocalKinds
                       /\ ret[c] = AlwaysFetch(pkg[c])
                       /\ NoRequest(c)
                    \/ /\ ReturnedCanceled(c)
                       /\ \E r \in res[c] : r.step = "cdn"
                       /\ cdnCalls = snap[c].cdn + 1

\* The second call, made with a canceled context for the package the first
\* call resolved, succeeded from the caches without a request.
C26_Witness ==
    /\ calls = 2
    /\ ctx[SeqCaller] = Canceled
    /\ Succeeded(SeqCaller)
    /\ ListingWarm(SeqCaller)
    /\ npmCalls = 1
    /\ cdnCalls = 1
    /\ NoRequest(SeqCaller)
    /\ res[SeqCaller] = {}
    /\ ret[SeqCaller].pkg.integrity # EmptyStr

----------------------------------------------------------------------------
(* Termination of concurrent calls *)

InCall(c) == pc[c] \notin {"idle", "done"}

\* The positions at which a call waits in r.mu.Lock().
LockWaits == {"metaLock", "metaStoreLock", "cdnLock", "cdnStoreLock"}

\* C27: with concurrent Resolve calls on one Resolver, when every request
\* handed to the transport comes back and the lock is granted fairly, every
\* call that was entered returns and every call waiting for the lock gets
\* it; the lock is held only inside a cache accessor, so no returned call
\* holds it; and whenever a call is running, some running call can step.
C27_EveryCallReturns ==
    /\ [](\A c \in Callers : mu = c => pc[c] \in CacheAccess)
    /\ []((\E c \in Callers : InCall(c)) =>
            \E c \in Callers : InCall(c) /\ ENABLED Step(c))
    /\ \A c \in Callers : InCall(c) ~> Done(c)
    /\ \A c \in Callers : (pc[c] \in LockWaits) ~> (mu = c)

\* A call waits for the lock the other call holds while it stores metadata.
C27_Witness ==
    /\ pc["c1"] \in LockWaits
    /\ mu = "c2"
    /\ pc["c2"] = "metaStore"

----------------------------------------------------------------------------
(* The sanitizer applied to its own results *)

\* p is a canonical rooted path: it starts with "/", is not "/", ends in no
\* separator and has no empty, "." or ".." segment.
Canonical(p) ==
    /\ p # << >>
    /\ Head(p) = "/"
    /\ p # <<"/">>
    /\ p[Len(p)] # "/"
    /\ LET segs == Segments(Tail(p), << >>, << >>) IN
         \A i \in 1..Len(segs) :
             segs[i] \notin { << >>, <<".">>, <<".", ".">> }

EndsBlank(p) == p # << >> /\ p[Len(p)] = " "

\* C28 as claimed: every successful result of the sanitizer is canonical and
\* is returned unchanged when it is sanitized again, and "../foo.js" gives
\* "/foo.js".
C28_IdempotentAndCanonical ==
    \A r \in sanOut :
        /\ r.ok =>
             /\ Canonical(r.path)
             /\ SanitizeFilePath(r.path) = r
        /\ sanIn = <<".", ".", "/", "foo.js">> => (r.ok /\ r.path = <<"/", "foo.js">>)

\* C28 as the code has it: every successful result is canonical; a result
\* that does not end in a blank is returned unchanged when it is sanitized
\* again; a result that ends in a blank (a blank before a trailing separator
\* of the input survives the trimming) is trimmed by the second pass, which
\* returns another path or fails; and "../foo.js" gives "/foo.js".
C28_CanonicalIdempotentUnlessBlankEnd ==
    \A r \in sanOut :
        /\ r.ok =>
             /\ Canonical(r.path)
             /\ ~EndsBlank(r.path) => SanitizeFilePath(r.path) = r
             /\ EndsBlank(r.path) => SanitizeFilePath(r.path) # r
        /\ sanIn = <<".", ".", "/", "foo.js">> => (r.ok /\ r.path = <<"/", "foo.js">>)

\* "../foo.js" was sanitized to "/foo.js", which the sanitizer returns as it
\* is.
C28_Witness ==
    /\ sanIn = <<".", ".", "/", "foo.js">>
    /\ sanOut = {[ok |-> TRUE, path |-> <<"/", "foo.js">>, err |-> NoErr]}
    /\ SanitizeFilePath(<<"/", "foo.js">>).path = <<"/", "foo.js">>

----------------------------------------------------------------------------
(* No fall-through after the fallback chain has picked *)

\* The names the listing of the package version of caller c's call has.
ListedNames(c) ==
    { cdn[ListingKey(c)][i].name : i \in 1..Len(cdn[ListingKey(c)]) }

\* C29: with no explicit file, the first non-empty of jsdelivr, unpkg, module
\* and main decides alone: when "/" + that field normalizes to the root the
\* call fails with PathResolvesToRoot before any listing request, and when
\* its normalized path is not in the listing the call fails with FileNotOnCDN
\* naming that path (unless the listing fetch itself fails), in both cases
\* also when a later field names a listed file; a call that succeeds returns
\* the normalized path of the first non-empty field.
C29_NoFallThroughAfterPick ==
    \A c \in Callers :
        DefaultFileCase(c) =>
            LET meta == registry[Identity(c)]
                v    == meta.distTags[Latest]
            IN
            (v \in DOMAIN meta.versions /\ ~AllEmpty(FallbackFields(meta.versions[v]))) =>
                LET f  == FirstNonEmpty(FallbackFields(meta.versions[v]))
                    nf == NormalForm(<<"/">> \o Trimmed(<<"/">> \o f))
                IN
                /\ nf = <<"/">> =>
                     /\ ret[c].err.kind = "PathResolvesToRoot"
                     /\ ret[c].pkg = ZeroPackage
                     /\ cdnCalls = snap[c].cdn
                /\ (nf # <<"/">> /\ ~FetchBroke(c, "cdn") /\ ListingKey(c) \in DOMAIN cdn
                      /\ nf \notin ListedNames(c)) =>
                     /\ ret[c].err.kind = "FileNotOnCDN"
                     /\ ret[c].pkg = ZeroPackage
                     /\ Contains(ret[c].err.text, <<"file ">> \o nf \o <<" for snippet ">>)
                /\ Succeeded(c) => ret[c].pkg.file = nf

\* jsdelivr ".." was refused as the root although unpkg, module and main name
\* listed files; and (in another world) jsdelivr "missing.js" was refused as
\* not on the CDN although the later fields are listed.
C29_Witness ==
    /\ Failed(SeqCaller)
    /\ pkg[SeqCaller].file = EmptyStr
    /\ Identity(SeqCaller) = Foo
    /\ \/ /\ registry[Foo] = FieldDoc(<<".", ".">>, FU, FM, FN)
          /\ ret[SeqCaller].err.kind = "PathResolvesToRoot"
       \/ /\ registry[Foo] = FieldDoc(<<"missing.js">>, FU, FM, FN)
          /\ ret[SeqCaller].err.kind = "FileNotOnCDN"
    /\ <<"/">> \o FU \in ListedNames(SeqCaller)

----------------------------------------------------------------------------
(* The loop of the generate cdn command *)

\* The registry identity of the j-th package of the data file.
DataIdentity(j) == EffectivePackageName(data[j])

\* The command returned the failure of the package at idx.
StoppedAtPackage == cpc = "returned" /\ cmdRet # NoErr /\ idx >= 1

\* The step in which the command returns the failure of the package at idx.
StopsHere == cpc = "loop" /\ cpc' = "returned" /\ cmdRet' # NoErr

\* What holds in every state of the command: packages are resolved one per
\* entry in file order on the Resolver that resolved the earlier ones, which
\* all succeeded; and once the command has returned the failure of a package,
\* no later package has been resolved or written and the error names the
\* failed package and wraps what failed.
InFileOrder ==
    /\ cpc = "loop" =>
         /\ calls \in {idx - 1, idx}
         /\ (calls = idx /\ idx >= 1) => pkg[SeqCaller] = data[idx]
         /\ \A j \in 1..(idx - 1) :
              /\ j <= Len(data)
              /\ DataIdentity(j) \in okPkgs
              /\ HasKey(metaCache, DataIdentity(j))
    /\ StoppedAtPackage =>
         /\ idx <= Len(data)
         /\ calls = idx
         /\ pkg[SeqCaller] = data[idx]
         /\ \A w \in wrote : w.at <= idx
         /\ cmdRet.kind \in {"ResolvePackage", "LoadTemplate", "WriteOutput"}
         /\ Contains(cmdRet.text, data[idx].name)
         /\ cmdRet.kind = "ResolvePackage" <=> ret[SeqCaller].err # NoErr
         /\ cmdRet.kind = "ResolvePackage" => ErrorsIs(cmdRet, ret[SeqCaller].err)
         /\ cmdRet.kind = "WriteOutput" =>
              \E w \in wrote : w.at = idx /\ w.err # NoErr /\ ErrorsIs(cmdRet, w.err)

\* The loop goes on to the next package only after the package at idx was
\* resolved and written without an error.
GoesOnAfterSuccess ==
    (idx >= 1 /\ idx' = idx + 1) =>
        /\ ret[SeqCaller].err = NoErr
        /\ \E w \in wrote' : w.at = idx /\ w.err = NoErr

\* C30 as claimed: the command resolves and writes the packages in file
\* order on one Resolver, stops at the first package that fails, returns its
\* error naming the package, and the step that stops leaves every output
\* written for an earlier package as it was.
C30_StopsAtFirstFailure ==
    [][ /\ InFileOrder'
        /\ GoesOnAfterSuccess
        /\ (StopsHere /\ ~dryRun) =>
             \A j \in 1..(idx - 1) :
                /\ HasKey(fs', OutPath(data[j].name))
                /\ fs'[OutPath(data[j].name)] = fs[OutPath(data[j].name)] ]_vars

\* C30 as the code has it: the same, but the step that stops leaves as it
\* was every output written for an earlier package whose output path (the
\* cleaned join of the output directory and name + ".mdx") is not the failed
\* package's; the output of an earlier package with the output path of the
\* failed package (the same name, or a name that cleans to the same path) is
\* the failed package's own output file, which is as it was when the failure
\* came before os.Create succeeded and holds what the failed package wrote
\* of its own output otherwise.
C30_StopsAtFirstFailureKeepingOtherPaths ==
    [][ /\ InFileOrder'
        /\ GoesOnAfterSuccess
        /\ (StopsHere /\ ~dryRun) =>
             \A j \in 1..(idx - 1) :
                LET out == OutPath(data[j].name) IN
                /\ HasKey(fs, out)
                /\ HasKey(fs', out)
                /\ out # OutPath(data[idx].name) => fs'[out] = fs[out]
                /\ out = OutPath(data[idx].name) =>
                     \/ fs'[out] = fs[out]
                     \/ /\ cmdRet'.kind = "WriteOutput"
                        /\ \E w \in wrote' :
                             w.at = idx /\ w.ran /\ fs'[out] = w.cb.content ]_vars

\* The second package of the data file, whose name differs from the first's
\* only in a leading "./", failed while its template ran, after the first
\* was written: the command returned the second package's error, and the
\* output path the two share holds what the second package wrote before it
\* failed, not the first package's output.
C30_Witness ==
    /\ StoppedAtPackage
    /\ ~dryRun
    /\ idx = 2
    /\ Len(data) = 2
    /\ data[1].name = ScenarioSpec.name
    /\ data[2].name = <<".", "/">> \o ScenarioSpec.name
    /\ OutPath(data[1].name) = OutPath(data[2].name)
    /\ cmdRet.kind = "WriteOutput"
    /\ HasKey(fs, OutPath(data[1].name))
    /\ ~fs[OutPath(data[1].name)].complete
    /\ fs[OutPath(data[1].name)].of.name = data[2].name


====
